---- MODULE Spec2Model ----
(***************************************************************************)
(* A state-machine model of the pytap protocol parser                      *)
(* (custom_components/pytap/pytap/core): the byte-level frame extractor,   *)
(* the transport correlator, the slot clock, the enumeration state machine *)
(* and the node-table builder, driven through Parser.feed.                 *)
(*                                                                         *)
(* Conventions.  Bytes are integers 0..255 and byte strings are sequences  *)
(* of them.  A Python dict is a function whose DOMAIN is the set of keys.  *)
(* An Optional value is a sequence of length 0 (None) or 1 (the value).    *)
(* Wall-clock times (datetime) are integers counting milliseconds.         *)
(***************************************************************************)
EXTENDS Integers, Sequences, FiniteSets, TLC

---------------------------------------------------------------------------
(* Python values                                                           *)

None == <<>>

Some(x) == <<x>>

Min(a, b) == IF a < b THEN a ELSE b

\* data[i:j] of Python (0-based, end exclusive, clamped to the length)
Slice(s, i, j) == SubSeq(s, i + 1, Min(j, Len(s)))

\* data[i:] of Python
SliceFrom(s, i) == SubSeq(s, i + 1, Len(s))

\* {} of Python
EmptyDict == [x \in {} |-> 0]

\* d[k] = v
DictPut(d, k, v) == [x \in (DOMAIN d) \cup {k} |-> IF x = k THEN v ELSE d[x]]

\* d.pop(k, None), the dict afterwards
DictDel(d, k) == [x \in (DOMAIN d) \ {k} |-> d[x]]

\* d.get(k): an Optional
DictGet(d, k) == IF k \in DOMAIN d THEN Some(d[k]) ELSE None

\* int.from_bytes(data, "big") / struct.unpack('>H', data) of two bytes
U16BE(data) == data[1] * 256 + data[2]

\* int.from_bytes(data, "little") of two bytes
U16LE(data) == data[1] + data[2] * 256

\* x & (1 << k) != 0
Bit(x, k) == (x \div (2 ^ k)) % 2 = 1

\* bytes.decode("utf-8", errors="replace"): an ASCII byte decodes to itself, a
\* byte that does not begin a valid sequence to U+FFFD.  (The inputs of this
\* model hold no valid multi-byte sequence.)
REPLACEMENT_CHARACTER == 65533

utf8_decode(data) ==
    [i \in 1..Len(data) |-> IF data[i] < 128 THEN data[i] ELSE REPLACEMENT_CHARACTER]

---------------------------------------------------------------------------
(* core/crc.py: CRC-16-CCITT, bit-reflected, initial value 0x8408, no      *)
(* final XOR (spec section 4.1; core/tests/test_crc.py gives the vectors). *)

CRC_INIT == 33800

CRC_POLY == 33800

\* a ^ b, bit by bit from the low end
RECURSIVE xor(_, _)
xor(a, b) ==
    IF a = 0 THEN b
    ELSE IF b = 0 THEN a
    ELSE ((a + b) % 2) + 2 * xor(a \div 2, b \div 2)

\* n shifts of the reflected polynomial division
RECURSIVE crc_shift(_, _)
crc_shift(c, n) ==
    IF n = 0 THEN c
    ELSE crc_shift(IF c % 2 = 1 THEN xor(c \div 2, CRC_POLY) ELSE c \div 2, n - 1)

\* one byte: the byte is folded into the low byte of the running value,
\* which is then shifted eight times
crc_update(c, byte) == crc_shift(xor(c, byte), 8)

\* the bytes lo..hi of data (1-based, inclusive) through crc_update in
\* order, from the running value c, which is 16 bits wide; the range is
\* halved, and the first half is computed before the second is entered, to
\* keep the evaluation shallow
RECURSIVE crc_range(_, _, _, _)
crc_range(c, data, lo, hi) ==
    IF lo > hi THEN c
    ELSE IF lo = hi THEN crc_update(c, data[lo])
    ELSE LET mid == (lo + hi) \div 2
             first == crc_range(c, data, lo, mid)
         IN  CASE first \in 0..65535 -> crc_range(first, data, mid + 1, hi)

crc(data) == crc_range(CRC_INIT, data, 1, Len(data))

---------------------------------------------------------------------------
(* core/types.py                                                           *)

SLOTS_PER_EPOCH == 12000

MAX_SLOT_NUMBER == 11999

\* Address.from_bytes: bit 15 is the direction, bits 14-0 the GatewayID
\* (always within 0..0x7FFF, so GatewayID.__post_init__ never raises here)
Address_from_bytes(data) ==
    LET value == U16BE(data)
    IN  [gateway_id |-> value % 32768, is_from |-> value >= 32768]

RECEIVE_REQUEST == 328

RECEIVE_RESPONSE == 329

COMMAND_REQUEST == 2831

COMMAND_RESPONSE == 2832

PING_REQUEST == 2816

ENUMERATION_START_REQUEST == 20

ENUMERATION_RESPONSE == 57

IDENTIFY_RESPONSE == 59

VERSION_RESPONSE == 11

ENUMERATION_END_RESPONSE == 6

\* the values of the FrameType enum
FrameType ==
    {328, 329, 2831, 2832, 2816, 2817, 20, 21, 56, 57, 60, 61, 58, 59, 10, 11,
     3586, 6}

STRING_REQUEST == 6

STRING_RESPONSE == 7

TOPOLOGY_REPORT == 9

NODE_TABLE_REQUEST == 38

NODE_TABLE_RESPONSE == 39

POWER_REPORT == 49

\* SlotCounter.epoch, SlotCounter.slot_number
SlotCounter_epoch(raw) == (raw \div 16384) % 4

SlotCounter_slot_number(raw) == raw % 16384

\* SlotCounter.slots_since: self.slots_since(past)
SlotCounter_slots_since(self, past) ==
    LET epoch_diff == (SlotCounter_epoch(self) - SlotCounter_epoch(past)) % 4
    IN  IF epoch_diff = 0
        THEN SlotCounter_slot_number(self) - SlotCounter_slot_number(past)
        ELSE IF epoch_diff = 1
        THEN (MAX_SLOT_NUMBER - SlotCounter_slot_number(past) + 1)
               + SlotCounter_slot_number(self)
        ELSE epoch_diff * SLOTS_PER_EPOCH
               + (SlotCounter_slot_number(self) - SlotCounter_slot_number(past))

\* LongAddress.__str__: colon-separated upper-case hex, two digits a byte;
\* modelled as the sequence of the hex digits' values
LongAddress_str(data) ==
    [i \in 1..(2 * Len(data)) |->
        IF i % 2 = 1 THEN data[(i + 1) \div 2] \div 16 ELSE data[i \div 2] % 16]

\* iter_received_packets: the (header_bytes, pkt_data) pairs of a payload
RECURSIVE iter_received_packets(_)
iter_received_packets(data) ==
    IF Len(data) = 0 THEN <<>>
    ELSE IF 7 > Len(data) THEN <<>>
    ELSE LET data_length == data[7]
         IN  IF 7 + data_length > Len(data) THEN <<>>
             ELSE <<[header_bytes |-> Slice(data, 0, 7),
                     pkt_data |-> Slice(data, 7, 7 + data_length)]>>
                  \o iter_received_packets(SliceFrom(data, 7 + data_length))

\* ReceivedPacketHeader.from_bytes
ReceivedPacketHeader_from_bytes(data) ==
    [packet_type |-> data[1],
     node_address |-> U16BE(Slice(data, 1, 3)),
     short_address |-> U16BE(Slice(data, 3, 5)),
     dsn |-> data[6],
     data_length |-> data[7]]

\* U12Pair.from_bytes
U12Pair_from_bytes(data) ==
    [first |-> data[1] * 16 + (data[2] \div 16),
     second |-> (data[2] % 16) * 256 + data[3]]

\* PowerReport.from_bytes (13 bytes)
PowerReport_from_bytes(data) ==
    [voltage_in_out |-> U12Pair_from_bytes(Slice(data, 0, 3)),
     dc_dc_duty_cycle_raw |-> data[4],
     current_temp |-> U12Pair_from_bytes(Slice(data, 4, 7)),
     unknown |-> Slice(data, 7, 10),
     slot_counter |-> U16BE(Slice(data, 10, 12)),
     rssi |-> data[13]]

\* PowerReport.temperature, in tenths of a degree: 12-bit two's complement
PowerReport_temperature(report) ==
    LET raw == report.current_temp.second
    IN  IF raw >= 2048 THEN raw - 4096 ELSE raw

---------------------------------------------------------------------------
(* core/barcode.py: the barcode of a LongAddress, defined only for the     *)
(* Tigo prefix 04:C0 (spec section 3): the remaining six bytes in hex and  *)
(* a CRC-derived check symbol out of 16.                                   *)

barcode_from_address(data) ==
    IF Len(data) = 8 /\ data[1] = 4 /\ data[2] = 192
    THEN Some([digits |-> LongAddress_str(SliceFrom(data, 2)),
               check |-> crc(data) % 16])
    ELSE None

---------------------------------------------------------------------------
(* core/state.py: SlotClock.  A clock is the record of its fields; _times  *)
(* is total once _initialize has run (it fills all 48 entries).            *)

NUM_INDICES == 48

\* SlotClock._index_and_offset: (index, offset in ms)
SlotClock_index_and_offset(sc) ==
    LET absolute_slot ==
            SlotCounter_epoch(sc) * SLOTS_PER_EPOCH + SlotCounter_slot_number(sc)
    IN  [index |-> absolute_slot \div 1000, offset |-> 5 * (absolute_slot % 1000)]

\* list indexing self._times[index]: IndexError outside the 48 entries
IndexInRange(index) == index < NUM_INDICES

\* SlotClock._initialize (and __init__).  ok = FALSE: IndexError was raised,
\* before any field was assigned.
SlotClock_initialize(sc, time) ==
    LET io == SlotClock_index_and_offset(sc)
        base == time - io.offset
    IN  IF ~IndexInRange(io.index) THEN [ok |-> FALSE, clock |-> None]
        ELSE [ok |-> TRUE,
              clock |->
                Some([times |-> [j \in 0..(NUM_INDICES - 1) |->
                                   base - 5000 * ((io.index - j) % NUM_INDICES)],
                      last_index |-> io.index,
                      last_time |-> time])]

\* a variant that fills no index between the last one and the new one
SlotClock_set_unfilled(clock, sc, time) ==
    IF time < clock.last_time THEN SlotClock_initialize(sc, time)
    ELSE LET io == SlotClock_index_and_offset(sc)
         IN  IF ~IndexInRange(io.index) THEN [ok |-> FALSE, clock |-> None]
             ELSE [ok |-> TRUE,
                   clock |-> Some([times |-> [clock.times EXCEPT ![io.index] = time - io.offset],
                                   last_index |-> io.index,
                                   last_time |-> time])]

\* SlotClock.set on an existing clock
SlotClock_set(clock, sc, time) ==
    IF time < clock.last_time THEN SlotClock_initialize(sc, time)
    ELSE LET io == SlotClock_index_and_offset(sc)
             steps == (io.index - clock.last_index) % NUM_INDICES
         IN  IF ~IndexInRange(io.index) THEN [ok |-> FALSE, clock |-> None]
             ELSE [ok |-> TRUE,
                   clock |->
                     Some([times |->
                             [j \in 0..(NUM_INDICES - 1) |->
                                IF j = io.index THEN time - io.offset
                                ELSE IF ((j - clock.last_index) % NUM_INDICES) \in 1..(steps - 1)
                                THEN clock.times[clock.last_index]
                                       + 5000 * ((j - clock.last_index) % NUM_INDICES)
                                ELSE clock.times[j]],
                           last_index |-> io.index,
                           last_time |-> time])]

\* SlotClock.get
SlotClock_get(clock, sc) ==
    LET io == SlotClock_index_and_offset(sc)
    IN  IF ~IndexInRange(io.index) THEN [ok |-> FALSE, time |-> 0]
        ELSE [ok |-> TRUE, time |-> clock.times[io.index] + io.offset]

---------------------------------------------------------------------------
(* core/state.py: NodeTableBuilder (the record of _entries) and            *)
(* PersistentState.                                                        *)

\* the entries of a page written into the accumulator, in order
RECURSIVE push_entries(_, _, _)
push_entries(acc, entries, i) ==
    IF i > Len(entries) THEN acc
    ELSE push_entries(DictPut(acc, entries[i].node_addr, entries[i].long_addr),
                      entries, i + 1)

\* NodeTableBuilder.push: the builder afterwards and the returned Optional
NodeTableBuilder_push(builder, entries) ==
    IF Len(entries) = 0
    THEN [builder |-> EmptyDict,
          result |-> IF DOMAIN builder # {} THEN Some(builder) ELSE None]
    ELSE [builder |-> push_entries(builder, entries, 1), result |-> None]

\* PersistentState(): node_table_order is the insertion order of the keys of
\* gateway_node_tables, which the iteration over that dict follows
PersistentState_new ==
    [gateway_identities |-> EmptyDict,
     gateway_versions |-> EmptyDict,
     gateway_node_tables |-> EmptyDict,
     node_table_order |-> <<>>]

---------------------------------------------------------------------------
(* core/state.py: PersistentState.load.  A stored document is what open    *)
(* and json.load make of the file: kind "missing" (FileNotFoundError),     *)
(* "denied" (PermissionError), "garbled" (JSONDecodeError), "array" (a     *)
(* JSON list) or "object", whose three sections are the lists of their     *)
(* (key, value) pairs in the order of the file.  A key is the sequence of  *)
(* its character codes; a JSON value is [type, text], and the text of an   *)
(* address is the sequence of its hex digits' values as LongAddress_str    *)
(* writes it (16 and more: a character that is no hex digit).              *)

\* the value of a string of decimal digits
RECURSIVE decimal(_)
decimal(text) ==
    IF Len(text) = 0 THEN 0
    ELSE 10 * decimal(SubSeq(text, 1, Len(text) - 1)) + (text[Len(text)] - 48)

\* int(text) for a str: an Optional, None when ValueError is raised.  (The
\* keys modelled hold no sign, blank or underscore.)
int_of(text) ==
    IF Len(text) > 0 /\ \A i \in 1..Len(text) : text[i] \in 48..57
    THEN Some(decimal(text)) ELSE None

\* LongAddress.from_str: bytes.fromhex of the digits, then the length test
\* of __post_init__; None when ValueError is raised
LongAddress_from_str(text) ==
    IF \/ Len(text) % 2 = 1
       \/ \E i \in 1..Len(text) : text[i] > 15
       \/ Len(text) # 16
    THEN None
    ELSE Some([i \in 1..8 |-> text[2 * i - 1] * 16 + text[2 * i]])

\* the loop over gateway_identities from entry i on: the value is converted
\* before the key
RECURSIVE load_identities(_, _, _)
load_identities(st, entries, i) ==
    IF i > Len(entries) THEN [state |-> st, exc |-> None]
    ELSE IF entries[i].value.type # "str"
    THEN [state |-> st, exc |-> Some("AttributeError")]
    ELSE IF LongAddress_from_str(entries[i].value.text) = None
    THEN [state |-> st, exc |-> Some("ValueError")]
    ELSE IF int_of(entries[i].key) = None
    THEN [state |-> st, exc |-> Some("ValueError")]
    ELSE load_identities(
             [st EXCEPT !.gateway_identities =
                 DictPut(@, int_of(entries[i].key)[1],
                         LongAddress_from_str(entries[i].value.text)[1])],
             entries, i + 1)

\* the loop over gateway_versions from entry i on
RECURSIVE load_versions(_, _, _)
load_versions(st, entries, i) ==
    IF i > Len(entries) THEN [state |-> st, exc |-> None]
    ELSE IF int_of(entries[i].key) = None
    THEN [state |-> st, exc |-> Some("ValueError")]
    ELSE load_versions(
             [st EXCEPT !.gateway_versions =
                 DictPut(@, int_of(entries[i].key)[1], entries[i].value.text)],
             entries, i + 1)

\* the dict comprehension over the nodes of one gateway from entry j on:
\* the key is converted before the value
RECURSIVE load_nodes(_, _, _)
load_nodes(table, nodes, j) ==
    IF j > Len(nodes) THEN [table |-> table, exc |-> None]
    ELSE IF int_of(nodes[j].key) = None
    THEN [table |-> table, exc |-> Some("ValueError")]
    ELSE IF nodes[j].value.type # "str"
    THEN [table |-> table, exc |-> Some("AttributeError")]
    ELSE IF LongAddress_from_str(nodes[j].value.text) = None
    THEN [table |-> table, exc |-> Some("ValueError")]
    ELSE load_nodes(DictPut(table, int_of(nodes[j].key)[1],
                            LongAddress_from_str(nodes[j].value.text)[1]),
                    nodes, j + 1)

\* the loop over gateway_node_tables from entry i on: the table is built
\* before the key is converted
RECURSIVE load_tables(_, _, _)
load_tables(st, entries, i) ==
    IF i > Len(entries) THEN [state |-> st, exc |-> None]
    ELSE IF load_nodes(EmptyDict, entries[i].nodes, 1).exc # None
    THEN [state |-> st, exc |-> load_nodes(EmptyDict, entries[i].nodes, 1).exc]
    ELSE IF int_of(entries[i].key) = None
    THEN [state |-> st, exc |-> Some("ValueError")]
    ELSE load_tables(
             [st EXCEPT
                !.gateway_node_tables =
                    DictPut(@, int_of(entries[i].key)[1],
                            load_nodes(EmptyDict, entries[i].nodes, 1).table),
                !.node_table_order =
                    IF int_of(entries[i].key)[1] \in DOMAIN st.gateway_node_tables
                    THEN @ ELSE Append(@, int_of(entries[i].key)[1])],
             entries, i + 1)

\* the three loops of the try block, each begun only if the one before it
\* ran to its end
load_sections(doc) ==
    LET ids == load_identities(PersistentState_new, doc.gateway_identities, 1)
    IN  IF ids.exc # None THEN ids
        ELSE LET vers == load_versions(ids.state, doc.gateway_versions, 1)
             IN  IF vers.exc # None THEN vers
                 ELSE load_tables(vers.state, doc.gateway_node_tables, 1)

\* the except clause: FileNotFoundError, JSONDecodeError, KeyError and
\* ValueError end the try block and the state as it then is is returned;
\* any other exception leaves load
load_outcome(r) ==
    IF r.exc \in {None, Some("FileNotFoundError"), Some("JSONDecodeError"),
                  Some("KeyError"), Some("ValueError")}
    THEN [raised |-> None, state |-> Some(r.state)]
    ELSE [raised |-> r.exc, state |-> None]

\* PersistentState.load
PersistentState_load(doc) ==
    load_outcome(
        IF doc.kind = "missing"
        THEN [state |-> PersistentState_new, exc |-> Some("FileNotFoundError")]
        ELSE IF doc.kind = "denied"
        THEN [state |-> PersistentState_new, exc |-> Some("PermissionError")]
        ELSE IF doc.kind = "garbled"
        THEN [state |-> PersistentState_new, exc |-> Some("JSONDecodeError")]
        ELSE IF doc.kind = "array"
        THEN [state |-> PersistentState_new, exc |-> Some("AttributeError")]
        ELSE load_sections(doc.sections))

---------------------------------------------------------------------------
(* core/parser.py                                                          *)

MAX_FRAME_SIZE == 256

UNESCAPE_MAP ==
    (0 :> 126) @@ (1 :> 36) @@ (2 :> 35) @@ (3 :> 37) @@ (4 :> 164) @@ (5 :> 163)
    @@ (6 :> 165)

Counters_new ==
    [frames_received |-> 0, crc_errors |-> 0, runts |-> 0, giants |-> 0,
     noise_bytes |-> 0]

\* a variant whose incremented high byte is not reduced modulo 256
interpret_packet_number_lo_unmasked(new_lo, old) ==
    LET old_hi == (old \div 256) % 256
        old_lo == old % 256
        new_hi == IF new_lo >= old_lo THEN old_hi ELSE old_hi + 1
    IN  new_hi * 256 + new_lo

\* _interpret_packet_number_lo
interpret_packet_number_lo(new_lo, old) ==
    LET old_hi == (old \div 256) % 256
        old_lo == old % 256
        new_hi == IF new_lo >= old_lo THEN old_hi ELSE (old_hi + 1) % 256
    IN  new_hi * 256 + new_lo

\* Parser.__init__ with the given PersistentState
Parser_new(persistent) ==
    [state |-> "IDLE",
     buffer |-> <<>>,
     rx_packet_numbers |-> EmptyDict,
     commands_awaiting |-> EmptyDict,
     command_sequence_numbers |-> EmptyDict,
     slot_clocks |-> EmptyDict,
     captured_slot_times |-> EmptyDict,
     enum_state |-> None,
     persistent_state |-> persistent,
     node_table_builders |-> EmptyDict,
     counters |-> Counters_new]

\* a variant that releases every frame of six bytes or more
decode_frame_unchecked(p) ==
    LET buffer == p.buffer
        n == Len(buffer)
    IN  IF n < 6
        THEN [p |-> [p EXCEPT !.counters.runts = @ + 1], frame |-> None]
        ELSE [p |-> p,
              frame |-> Some([address |-> Address_from_bytes(Slice(buffer, 0, 2)),
                              frame_type |-> U16BE(Slice(buffer, 2, 4)),
                              payload |-> Slice(buffer, 4, n - 2)])]

\* Parser._decode_frame on self._buffer: the counters afterwards and the frame
decode_frame(p) ==
    LET buffer == p.buffer
        n == Len(buffer)
    IN  IF n < 6
        THEN [p |-> [p EXCEPT !.counters.runts = @ + 1], frame |-> None]
        ELSE IF crc(Slice(buffer, 0, n - 2)) # U16LE(Slice(buffer, n - 2, n))
        THEN [p |-> [p EXCEPT !.counters.crc_errors = @ + 1], frame |-> None]
        ELSE [p |-> p,
              frame |-> Some([address |-> Address_from_bytes(Slice(buffer, 0, 2)),
                              frame_type |-> U16BE(Slice(buffer, 2, 4)),
                              payload |-> Slice(buffer, 4, n - 2)])]

\* a variant whose restart inside a frame (7E 07) keeps the buffer and whose
\* unknown escape keeps it too
accumulate_transition_keeping(state, buffer, byte) ==
    CASE state \in {"IDLE", "NOISE"} ->
           [next_state |-> IF byte \in {0, 255} THEN "IDLE"
                           ELSE IF byte = 126 THEN "START_OF_FRAME" ELSE "NOISE",
            buffer |-> buffer]
      [] state = "START_OF_FRAME" ->
           IF byte = 7 THEN [next_state |-> "FRAME", buffer |-> <<>>]
           ELSE [next_state |-> "NOISE", buffer |-> buffer]
      [] state = "FRAME" ->
           IF byte = 126 THEN [next_state |-> "FRAME_ESCAPE", buffer |-> buffer]
           ELSE IF Len(buffer) < MAX_FRAME_SIZE
           THEN [next_state |-> "FRAME", buffer |-> Append(buffer, byte)]
           ELSE [next_state |-> "GIANT", buffer |-> buffer]
      [] state = "FRAME_ESCAPE" ->
           IF byte = 7 THEN [next_state |-> "FRAME", buffer |-> buffer]
           ELSE IF byte \in DOMAIN UNESCAPE_MAP
           THEN IF Len(buffer) < MAX_FRAME_SIZE
                THEN [next_state |-> "FRAME",
                      buffer |-> Append(buffer, UNESCAPE_MAP[byte])]
                ELSE [next_state |-> "GIANT", buffer |-> <<>>]
           ELSE [next_state |-> "NOISE", buffer |-> buffer]
      [] state = "GIANT" ->
           [next_state |-> IF byte = 126 THEN "GIANT_ESCAPE" ELSE "GIANT",
            buffer |-> buffer]
      [] state = "GIANT_ESCAPE" ->
           IF byte = 7 THEN [next_state |-> "FRAME", buffer |-> <<>>]
           ELSE IF byte = 8 THEN [next_state |-> "IDLE", buffer |-> buffer]
           ELSE [next_state |-> "GIANT", buffer |-> buffer]

\* Parser._accumulate, the branches that set next_state: the next state and the
\* buffer after the branch
accumulate_transition(state, buffer, byte) ==
    CASE state = "IDLE" ->
           [next_state |-> IF byte \in {0, 255} THEN "IDLE"
                           ELSE IF byte = 126 THEN "START_OF_FRAME" ELSE "NOISE",
            buffer |-> buffer]
      [] state = "NOISE" ->
           [next_state |-> IF byte \in {0, 255} THEN "IDLE"
                           ELSE IF byte = 126 THEN "START_OF_FRAME" ELSE "NOISE",
            buffer |-> buffer]
      [] state = "START_OF_FRAME" ->
           IF byte = 7 THEN [next_state |-> "FRAME", buffer |-> <<>>]
           ELSE [next_state |-> "NOISE", buffer |-> buffer]
      [] state = "FRAME" ->
           IF byte = 126 THEN [next_state |-> "FRAME_ESCAPE", buffer |-> buffer]
           ELSE IF Len(buffer) < MAX_FRAME_SIZE
           THEN [next_state |-> "FRAME", buffer |-> Append(buffer, byte)]
           ELSE [next_state |-> "GIANT", buffer |-> buffer]
      [] state = "FRAME_ESCAPE" ->
           IF byte = 7 THEN [next_state |-> "FRAME", buffer |-> <<>>]
           ELSE IF byte \in DOMAIN UNESCAPE_MAP
           THEN IF Len(buffer) < MAX_FRAME_SIZE
                THEN [next_state |-> "FRAME",
                      buffer |-> Append(buffer, UNESCAPE_MAP[byte])]
                ELSE [next_state |-> "GIANT", buffer |-> <<>>]
           ELSE [next_state |-> "NOISE", buffer |-> <<>>]
      [] state = "GIANT" ->
           [next_state |-> IF byte = 126 THEN "GIANT_ESCAPE" ELSE "GIANT",
            buffer |-> buffer]
      [] state = "GIANT_ESCAPE" ->
           IF byte = 7 THEN [next_state |-> "FRAME", buffer |-> <<>>]
           ELSE IF byte = 8 THEN [next_state |-> "IDLE", buffer |-> buffer]
           ELSE [next_state |-> "GIANT", buffer |-> buffer]

\* Parser._accumulate at the end of a frame (7E 08 in FRAME_ESCAPE), after
\* _decode_frame returned d: the buffer is emptied and the state is IDLE
accumulate_frame_end(d) ==
    [p |-> [d.p EXCEPT !.buffer = <<>>, !.state = "IDLE"], frame |-> d.frame]

\* a variant that leaves the buffer as the transition gave it when GIANT is
\* entered
accumulate_step_keeping(p, t) ==
    LET noise == t.next_state = "NOISE" /\ p.state # "NOISE"
        giant == t.next_state = "GIANT" /\ p.state \notin {"GIANT", "GIANT_ESCAPE"}
    IN  [p |-> [p EXCEPT !.state = t.next_state,
                         !.buffer = t.buffer,
                         !.counters.noise_bytes = IF noise THEN @ + 1 ELSE @,
                         !.counters.giants = IF giant THEN @ + 1 ELSE @],
         frame |-> None]

\* a variant that counts every byte that leaves the extractor in NOISE
accumulate_step_per_byte(p, t) ==
    LET noise == t.next_state = "NOISE"
        giant == t.next_state = "GIANT" /\ p.state \notin {"GIANT", "GIANT_ESCAPE"}
    IN  [p |-> [p EXCEPT !.state = t.next_state,
                         !.buffer = IF giant THEN <<>> ELSE t.buffer,
                         !.counters.noise_bytes = IF noise THEN @ + 1 ELSE @,
                         !.counters.giants = IF giant THEN @ + 1 ELSE @],
         frame |-> None]

\* Parser._accumulate on every other byte, t the transition taken: entering
\* NOISE counts a noise byte, entering GIANT counts a giant and empties the
\* buffer
accumulate_step(p, t) ==
    LET noise == t.next_state = "NOISE" /\ p.state # "NOISE"
        giant == t.next_state = "GIANT" /\ p.state \notin {"GIANT", "GIANT_ESCAPE"}
    IN  [p |-> [p EXCEPT !.state = t.next_state,
                         !.buffer = IF giant THEN <<>> ELSE t.buffer,
                         !.counters.noise_bytes = IF noise THEN @ + 1 ELSE @,
                         !.counters.giants = IF giant THEN @ + 1 ELSE @],
         frame |-> None]

\* a variant in which 7E 07 does not leave GIANT
accumulate_giant_forever(p, byte) ==
    IF p.state = "GIANT_ESCAPE" /\ byte = 7
    THEN [p |-> [p EXCEPT !.state = "GIANT"], frame |-> None]
    ELSE IF p.state = "FRAME_ESCAPE" /\ byte = 8
    THEN accumulate_frame_end(decode_frame(p))
    ELSE accumulate_step(p, accumulate_transition(p.state, p.buffer, byte))

\* Parser._accumulate: the parser afterwards and the returned Optional frame
accumulate(p, byte) ==
    IF p.state = "FRAME_ESCAPE" /\ byte = 8
    THEN accumulate_frame_end(decode_frame(p))
    ELSE accumulate_step(p, accumulate_transition(p.state, p.buffer, byte))

\* what a handler returns: the parser afterwards, the events, and whether an
\* exception left the handler instead
Ret(p, events) == [p |-> p, events |-> events, raised |-> FALSE]

Raise(p) == [p |-> p, events |-> <<>>, raised |-> TRUE]

---------------------------------------------------------------------------
(* core/parser.py: the infrastructure snapshot                             *)

\* the nodes dict built by iterating gateway_node_tables in insertion order:
\* for a node id in several tables the last table written wins
infrastructure_nodes(ps) ==
    LET order == ps.node_table_order
        tables == ps.gateway_node_tables
        nids == UNION {DOMAIN tables[order[i]] : i \in 1..Len(order)}
        last_table(n) ==
            CHOOSE i \in 1..Len(order) :
                /\ n \in DOMAIN tables[order[i]]
                /\ \A j \in (i + 1)..Len(order) : n \notin DOMAIN tables[order[j]]
    IN  [n \in nids |->
            LET addr == tables[order[last_table(n)]][n]
            IN  [address |-> Some(LongAddress_str(addr)),
                 barcode |-> barcode_from_address(addr)]]

\* Parser._emit_infrastructure_event: the one-event list.  (_state_file is
\* None in the parser modelled, so _save_persistent_state does nothing.)
emit_infrastructure_event(p, now) ==
    LET ps == p.persistent_state
        ids == ps.gateway_identities
        vers == ps.gateway_versions
        gateways ==
            [gw \in (DOMAIN ids) \cup (DOMAIN vers) |->
                IF gw \in DOMAIN ids
                THEN [address |-> Some(LongAddress_str(ids[gw])),
                      version |-> DictGet(vers, gw)]
                ELSE [address |-> None, version |-> Some(vers[gw])]]
    IN  <<[event_type |-> "infrastructure",
           gateways |-> gateways,
           nodes |-> infrastructure_nodes(ps),
           timestamp |-> now]>>

\* Parser.infrastructure (the property)
Parser_infrastructure(p) ==
    LET ps == p.persistent_state
        gateways ==
            [gw \in (DOMAIN ps.gateway_identities) \cup (DOMAIN ps.gateway_versions) |->
                [address |-> IF DictGet(ps.gateway_identities, gw) # None
                             THEN Some(LongAddress_str(ps.gateway_identities[gw]))
                             ELSE None,
                 version |-> DictGet(ps.gateway_versions, gw)]]
    IN  [gateways |-> gateways, nodes |-> infrastructure_nodes(ps)]

---------------------------------------------------------------------------
(* core/parser.py: transport handlers                                      *)

\* a variant that stores the packet number without a capture time
handle_receive_request_untimed(p, frame, now) ==
    LET gw_id == frame.address.gateway_id
    IN  IF frame.address.is_from THEN Ret(p, <<>>)
        ELSE IF Len(frame.payload) < 5 THEN Ret(p, <<>>)
        ELSE Ret([p EXCEPT
                    !.rx_packet_numbers =
                        DictPut(@, gw_id, U16BE(Slice(frame.payload, 2, 4)))],
                 <<>>)

\* Parser._handle_receive_request
handle_receive_request(p, frame, now) ==
    LET gw_id == frame.address.gateway_id
    IN  IF frame.address.is_from THEN Ret(p, <<>>)
        ELSE IF Len(frame.payload) < 5 THEN Ret(p, <<>>)
        ELSE Ret([p EXCEPT
                    !.rx_packet_numbers =
                        DictPut(@, gw_id, U16BE(Slice(frame.payload, 2, 4))),
                    !.captured_slot_times = DictPut(@, gw_id, now)],
                 <<>>)

\* the attributes a PowerReport has: its fields and its properties
PowerReport_attributes ==
    {"voltage_in_out", "dc_dc_duty_cycle_raw", "current_temp", "unknown",
     "slot_counter", "rssi",
     "voltage_in", "voltage_out", "current", "temperature", "duty_cycle"}

\* the PowerReportEvent built in _handle_power_report, timestamp ts being
\* SlotClock.get's answer.  An IndexError of SlotClock.get is caught by
\* the except clause of _handle_receive_response (ValueError, IndexError),
\* which drops the packet; the read of report.current_in is an AttributeError
\* when PowerReport has no such attribute, and that one is not caught.
power_report_event(p, gw_id, node_id, barcode, report, ts) ==
    IF ~ts.ok THEN Ret(p, <<>>)
    ELSE IF "current_in" \notin PowerReport_attributes THEN Raise(p)
    ELSE Ret(p, <<[event_type |-> "power_report",
                   gateway_id |-> gw_id,
                   node_id |-> node_id,
                   barcode |-> barcode,
                   voltage_in |-> report.voltage_in_out.first,
                   voltage_out |-> report.voltage_in_out.second,
                   current_in |-> report.current_temp.first,
                   temperature |-> PowerReport_temperature(report),
                   dc_dc_duty_cycle |-> report.dc_dc_duty_cycle_raw,
                   rssi |-> report.rssi,
                   timestamp |-> ts.time]>>)

\* the slot-clock lookup of _handle_power_report for the parsed report
power_report_timestamp(p, gw_id, node_id, barcode, report) ==
    power_report_event(p, gw_id, node_id, barcode, report,
                       SlotClock_get(p.slot_clocks[gw_id], report.slot_counter))

\* Parser._handle_power_report
handle_power_report(p, gw_id, node_id, data) ==
    LET tables == p.persistent_state.gateway_node_tables
    IN  IF Len(data) < 13 THEN Ret(p, <<>>)
        ELSE IF gw_id \notin DOMAIN p.slot_clocks THEN Ret(p, <<>>)
        ELSE power_report_timestamp(
                 p, gw_id, node_id,
                 IF gw_id \in DOMAIN tables /\ node_id \in DOMAIN tables[gw_id]
                 THEN barcode_from_address(tables[gw_id][node_id])
                 ELSE None,
                 PowerReport_from_bytes(Slice(data, 0, 13)))

\* Parser._parse_pv_packet (with _handle_string_response and
\* _handle_topology_report): the events of one embedded packet, or the
\* exception leaving it
parse_pv_packet(p, gw_id, header, data, now) ==
    IF header.node_address = 0 THEN Ret(p, <<>>)
    ELSE IF header.packet_type = POWER_REPORT
    THEN handle_power_report(p, gw_id, header.node_address, data)
    ELSE IF header.packet_type = STRING_RESPONSE
    THEN Ret(p, <<[event_type |-> "string",
                   gateway_id |-> gw_id,
                   node_id |-> header.node_address,
                   direction |-> "response",
                   content |-> utf8_decode(data),
                   timestamp |-> now]>>)
    ELSE IF header.packet_type = TOPOLOGY_REPORT
    THEN Ret(p, <<[event_type |-> "topology",
                   gateway_id |-> gw_id,
                   node_id |-> header.node_address,
                   data |-> data,
                   timestamp |-> now]>>)
    ELSE Ret(p, <<>>)

\* events.extend(...) in the loop of _handle_receive_response: the events of
\* one packet and then those of the packets after it; an exception ends
\* the loop and leaves the handler
extend_events(p, one, rest) ==
    IF one.raised THEN Raise(p)
    ELSE IF rest.raised THEN Raise(p)
    ELSE Ret(p, one.events \o rest.events)

\* the loop over iter_received_packets in _handle_receive_response, from
\* packet i on
RECURSIVE parse_received_packets(_, _, _, _, _)
parse_received_packets(p, gw_id, packets, i, now) ==
    IF i > Len(packets) THEN Ret(p, <<>>)
    ELSE extend_events(
             p,
             parse_pv_packet(p, gw_id,
                             ReceivedPacketHeader_from_bytes(packets[i].header_bytes),
                             packets[i].pkt_data, now),
             parse_received_packets(p, gw_id, packets, i + 1, now))

\* Parser._handle_receive_response from "Update stored packet number" on
receive_response_update(p, gw_id, packet_number, slot_counter, received_data, now) ==
    LET p1 == [p EXCEPT !.rx_packet_numbers = DictPut(@, gw_id, packet_number),
                        !.captured_slot_times = DictDel(@, gw_id)]
        capture_time == DictGet(p.captured_slot_times, gw_id)
        upd == IF gw_id \in DOMAIN p.slot_clocks
               THEN SlotClock_set(p.slot_clocks[gw_id], slot_counter, capture_time[1])
               ELSE SlotClock_initialize(slot_counter, capture_time[1])
    IN  IF capture_time # None /\ ~upd.ok THEN Raise(p1)
        ELSE parse_received_packets(
                 IF capture_time = None THEN p1
                 ELSE [p1 EXCEPT !.slot_clocks = DictPut(@, gw_id, upd.clock[1])],
                 gw_id, iter_received_packets(received_data), 1, now)

\* a variant that stores the packet number before the slot counter is read
handle_receive_response_storing_early(p, frame, now) ==
    LET gw_id == frame.address.gateway_id
        payload == frame.payload
        status_type == U16BE(Slice(payload, 0, 2))
        offset0 == 2 + (IF ~Bit(status_type, 0) THEN 1 ELSE 0)
                     + (IF ~Bit(status_type, 1) THEN 1 ELSE 0)
                     + (IF ~Bit(status_type, 2) THEN 2 ELSE 0)
                     + (IF ~Bit(status_type, 3) THEN 2 ELSE 0)
        full == ~Bit(status_type, 4)
        offset1 == offset0 + (IF full THEN 2 ELSE 1)
        packet_number ==
            IF full THEN U16BE(Slice(payload, offset0, offset0 + 2))
            ELSE interpret_packet_number_lo(payload[offset0 + 1],
                                            p.rx_packet_numbers[gw_id])
    IN  IF ~frame.address.is_from THEN Ret(p, <<>>)
        ELSE IF gw_id \notin DOMAIN p.rx_packet_numbers THEN Ret(p, <<>>)
        ELSE IF Len(payload) < 4 THEN Ret(p, <<>>)
        ELSE IF (status_type \div 32) % 8 # 7 THEN Ret(p, <<>>)
        ELSE IF offset0 >= Len(payload) THEN Ret(p, <<>>)
        ELSE IF offset1 > Len(payload) THEN Ret(p, <<>>)
        ELSE IF offset1 + 2 > Len(payload)
             THEN Ret([p EXCEPT !.rx_packet_numbers = DictPut(@, gw_id, packet_number)],
                      <<>>)
        ELSE receive_response_update(p, gw_id, packet_number,
                                     U16BE(Slice(payload, offset1, offset1 + 2)),
                                     SliceFrom(payload, offset1 + 2), now)

\* Parser._handle_receive_response
handle_receive_response(p, frame, now) ==
    LET gw_id == frame.address.gateway_id
        payload == frame.payload
        status_type == U16BE(Slice(payload, 0, 2))
        offset0 == 2 + (IF ~Bit(status_type, 0) THEN 1 ELSE 0)
                     + (IF ~Bit(status_type, 1) THEN 1 ELSE 0)
                     + (IF ~Bit(status_type, 2) THEN 2 ELSE 0)
                     + (IF ~Bit(status_type, 3) THEN 2 ELSE 0)
        full == ~Bit(status_type, 4)
        offset1 == offset0 + (IF full THEN 2 ELSE 1)
        packet_number ==
            IF full THEN U16BE(Slice(payload, offset0, offset0 + 2))
            ELSE interpret_packet_number_lo(payload[offset0 + 1],
                                            p.rx_packet_numbers[gw_id])
    IN  IF ~frame.address.is_from THEN Ret(p, <<>>)
        ELSE IF gw_id \notin DOMAIN p.rx_packet_numbers THEN Ret(p, <<>>)
        ELSE IF Len(payload) < 4 THEN Ret(p, <<>>)
        ELSE IF (status_type \div 32) % 8 # 7 THEN Ret(p, <<>>)
        ELSE IF offset0 >= Len(payload) THEN Ret(p, <<>>)
        ELSE IF offset1 > Len(payload) THEN Ret(p, <<>>)
        ELSE IF offset1 + 2 > Len(payload) THEN Ret(p, <<>>)
        ELSE receive_response_update(p, gw_id, packet_number,
                                     U16BE(Slice(payload, offset1, offset1 + 2)),
                                     SliceFrom(payload, offset1 + 2), now)

\* a variant that keeps the entry already stored under the key
handle_command_request_keep_first(p, frame) ==
    LET gw_id == frame.address.gateway_id
        packet_type == frame.payload[4]
        sequence_number == frame.payload[5]
        key == <<gw_id, sequence_number>>
    IN  IF frame.address.is_from THEN Ret(p, <<>>)
        ELSE IF Len(frame.payload) < 5 THEN Ret(p, <<>>)
        ELSE Ret([p EXCEPT
                    !.command_sequence_numbers = DictPut(@, gw_id, sequence_number),
                    !.commands_awaiting =
                        IF key \in DOMAIN @ THEN @
                        ELSE DictPut(@, key,
                                     [packet_type |-> packet_type,
                                      payload |-> SliceFrom(frame.payload, 5)])],
                 <<>>)

\* Parser._handle_command_request
handle_command_request(p, frame) ==
    LET gw_id == frame.address.gateway_id
        packet_type == frame.payload[4]
        sequence_number == frame.payload[5]
    IN  IF frame.address.is_from THEN Ret(p, <<>>)
        ELSE IF Len(frame.payload) < 5 THEN Ret(p, <<>>)
        ELSE Ret([p EXCEPT
                    !.command_sequence_numbers = DictPut(@, gw_id, sequence_number),
                    !.commands_awaiting =
                        DictPut(@, <<gw_id, sequence_number>>,
                                [packet_type |-> packet_type,
                                 payload |-> SliceFrom(frame.payload, 5)])],
                 <<>>)

\* the entries list built in _handle_node_table_command
node_table_entries(entries_data, entries_count) ==
    [i \in 1..entries_count |->
        [node_addr |-> U16BE(Slice(entries_data, (i - 1) * 10, (i - 1) * 10 + 2)),
         long_addr |-> Slice(entries_data, (i - 1) * 10 + 2, (i - 1) * 10 + 10)]]

\* a variant that drops what the gateway has accumulated when a response
\* is malformed
handle_node_table_command_clearing(p, gw_id, req_payload, resp_payload, now) ==
    IF /\ Len(req_payload) >= 2
       /\ Len(resp_payload) >= 1
       /\ Len(resp_payload) - 1 # resp_payload[1] * 10
    THEN Ret([p EXCEPT !.node_table_builders = DictDel(@, gw_id)], <<>>)
    ELSE LET pushed ==
                 NodeTableBuilder_push(
                     IF gw_id \in DOMAIN p.node_table_builders
                     THEN p.node_table_builders[gw_id] ELSE EmptyDict,
                     node_table_entries(SliceFrom(resp_payload, 1), resp_payload[1]))
             p1 == [p EXCEPT !.node_table_builders = DictPut(@, gw_id, pushed.builder)]
             p2 == [p1 EXCEPT
                      !.persistent_state.gateway_node_tables =
                          DictPut(@, gw_id, pushed.result[1]),
                      !.persistent_state.node_table_order =
                          IF gw_id \in DOMAIN p.persistent_state.gateway_node_tables
                          THEN @ ELSE Append(@, gw_id)]
         IN  IF Len(req_payload) < 2 THEN Ret(p, <<>>)
             ELSE IF Len(resp_payload) < 1 THEN Ret(p, <<>>)
             ELSE IF pushed.result # None THEN Ret(p2, emit_infrastructure_event(p2, now))
             ELSE Ret(p1, <<>>)

\* Parser._handle_node_table_command
handle_node_table_command(p, gw_id, req_payload, resp_payload, now) ==
    LET entries_count == resp_payload[1]
        entries_data == SliceFrom(resp_payload, 1)
        builder == IF gw_id \in DOMAIN p.node_table_builders
                   THEN p.node_table_builders[gw_id] ELSE EmptyDict
        pushed == NodeTableBuilder_push(builder,
                                        node_table_entries(entries_data, entries_count))
        p1 == [p EXCEPT !.node_table_builders = DictPut(@, gw_id, pushed.builder)]
        order == p.persistent_state.node_table_order
        p2 == [p1 EXCEPT
                 !.persistent_state.gateway_node_tables =
                     DictPut(@, gw_id, pushed.result[1]),
                 !.persistent_state.node_table_order =
                     IF gw_id \in DOMAIN p.persistent_state.gateway_node_tables
                     THEN order ELSE Append(order, gw_id)]
    IN  IF Len(req_payload) < 2 THEN Ret(p, <<>>)
        ELSE IF Len(resp_payload) < 1 THEN Ret(p, <<>>)
        ELSE IF Len(entries_data) # entries_count * 10 THEN Ret(p, <<>>)
        ELSE IF pushed.result # None THEN Ret(p2, emit_infrastructure_event(p2, now))
        ELSE Ret(p1, <<>>)

\* Parser._handle_string_command
handle_string_command(p, gw_id, req_payload, resp_payload, now) ==
    IF Len(req_payload) < 2 THEN Ret(p, <<>>)
    ELSE Ret(p, <<[event_type |-> "string",
                   gateway_id |-> gw_id,
                   node_id |-> U16BE(Slice(req_payload, 0, 2)),
                   direction |-> "request",
                   content |-> utf8_decode(SliceFrom(req_payload, 2)),
                   timestamp |-> now]>>)

\* Parser._handle_command_pair
handle_command_pair(p, gw_id, req_type, req_payload, resp_type, resp_payload, now) ==
    IF req_type = NODE_TABLE_REQUEST /\ resp_type = NODE_TABLE_RESPONSE
    THEN handle_node_table_command(p, gw_id, req_payload, resp_payload, now)
    ELSE IF req_type = STRING_REQUEST /\ resp_type = STRING_RESPONSE
    THEN handle_string_command(p, gw_id, req_payload, resp_payload, now)
    ELSE Ret(p, <<>>)

\* a variant that looks the request up by sequence number alone
handle_command_response_by_sequence(p, frame, now) ==
    LET gw_id == frame.address.gateway_id
        matching == {k \in DOMAIN p.commands_awaiting : k[2] = frame.payload[5]}
        key == CHOOSE k \in matching : TRUE
        request_data == p.commands_awaiting[key]
    IN  IF ~frame.address.is_from THEN Ret(p, <<>>)
        ELSE IF Len(frame.payload) < 5 THEN Ret(p, <<>>)
        ELSE IF matching = {} THEN Ret(p, <<>>)
        ELSE handle_command_pair([p EXCEPT !.commands_awaiting = DictDel(@, key)],
                                 gw_id, request_data.packet_type, request_data.payload,
                                 frame.payload[4], SliceFrom(frame.payload, 5), now)

\* a variant that leaves the request stored when the types do not pair
handle_command_response_pairing(p, frame, now) ==
    LET gw_id == frame.address.gateway_id
        key == <<gw_id, frame.payload[5]>>
        request_data == p.commands_awaiting[key]
        pairs == \/ /\ request_data.packet_type = NODE_TABLE_REQUEST
                    /\ frame.payload[4] = NODE_TABLE_RESPONSE
                 \/ /\ request_data.packet_type = STRING_REQUEST
                    /\ frame.payload[4] = STRING_RESPONSE
    IN  IF ~frame.address.is_from THEN Ret(p, <<>>)
        ELSE IF Len(frame.payload) < 5 THEN Ret(p, <<>>)
        ELSE IF key \notin DOMAIN p.commands_awaiting THEN Ret(p, <<>>)
        ELSE IF ~pairs THEN Ret(p, <<>>)
        ELSE handle_command_pair([p EXCEPT !.commands_awaiting = DictDel(@, key)],
                                 gw_id, request_data.packet_type, request_data.payload,
                                 frame.payload[4], SliceFrom(frame.payload, 5), now)

\* Parser._handle_command_response
handle_command_response(p, frame, now) ==
    LET gw_id == frame.address.gateway_id
        key == <<gw_id, frame.payload[5]>>
        request_data == p.commands_awaiting[key]
    IN  IF ~frame.address.is_from THEN Ret(p, <<>>)
        ELSE IF Len(frame.payload) < 5 THEN Ret(p, <<>>)
        ELSE IF key \notin DOMAIN p.commands_awaiting THEN Ret(p, <<>>)
        ELSE handle_command_pair([p EXCEPT !.commands_awaiting = DictDel(@, key)],
                                 gw_id, request_data.packet_type, request_data.payload,
                                 frame.payload[4], SliceFrom(frame.payload, 5), now)

---------------------------------------------------------------------------
(* core/parser.py: enumeration handlers.  _enum_state is None or Some of   *)
(* the record of _EnumerationState.                                        *)

\* Parser._handle_enumeration_start
handle_enumeration_start(p, frame) ==
    IF frame.address.is_from THEN Ret(p, <<>>)
    ELSE IF frame.address.gateway_id # 0 THEN Ret(p, <<>>)
    ELSE IF Len(frame.payload) < 6 THEN Ret(p, <<>>)
    ELSE Ret([p EXCEPT
                !.enum_state =
                    Some([enumeration_gateway_id |->
                              Address_from_bytes(Slice(frame.payload, 4, 6)).gateway_id,
                          gateway_identities |-> EmptyDict,
                          gateway_versions |-> EmptyDict])],
             <<>>)

\* a variant that does not look at the enumeration state: the identity goes
\* straight to the persistent state and is announced
observe_gateway_identity_unbuffered(p, frame, now) ==
    LET gw_id == frame.address.gateway_id
        p1 == [p EXCEPT !.persistent_state.gateway_identities =
                            DictPut(@, gw_id, Slice(frame.payload, 0, 8))]
    IN  IF ~frame.address.is_from THEN Ret(p, <<>>)
        ELSE IF Len(frame.payload) < 8 THEN Ret(p, <<>>)
        ELSE Ret(p1, emit_infrastructure_event(p1, now))

\* the body shared by _handle_enumeration_response and _handle_identify_response
observe_gateway_identity(p, frame, now) ==
    LET long_address == Slice(frame.payload, 0, 8)
        gw_id == frame.address.gateway_id
        p1 == [p EXCEPT !.persistent_state.gateway_identities =
                            DictPut(@, gw_id, long_address)]
    IN  IF ~frame.address.is_from THEN Ret(p, <<>>)
        ELSE IF Len(frame.payload) < 8 THEN Ret(p, <<>>)
        ELSE IF p.enum_state # None
        THEN IF gw_id # p.enum_state[1].enumeration_gateway_id
             THEN Ret([p EXCEPT !.enum_state[1].gateway_identities =
                                    DictPut(@, gw_id, long_address)],
                      <<>>)
             ELSE Ret(p, <<>>)
        ELSE Ret(p1, emit_infrastructure_event(p1, now))

\* Parser._handle_enumeration_response
handle_enumeration_response(p, frame, now) == observe_gateway_identity(p, frame, now)

\* Parser._handle_identify_response
handle_identify_response(p, frame, now) == observe_gateway_identity(p, frame, now)

\* Parser._handle_version_response
handle_version_response(p, frame, now) ==
    LET version == utf8_decode(frame.payload)
        gw_id == frame.address.gateway_id
        p1 == [p EXCEPT !.persistent_state.gateway_versions = DictPut(@, gw_id, version)]
    IN  IF ~frame.address.is_from THEN Ret(p, <<>>)
        ELSE IF Len(version) = 0 THEN Ret(p, <<>>)
        ELSE IF p.enum_state # None
        THEN Ret([p EXCEPT !.enum_state[1].gateway_versions = DictPut(@, gw_id, version)],
                 <<>>)
        ELSE Ret(p1, emit_infrastructure_event(p1, now))

\* a variant that merges the provisional buffer into the persistent state
\* instead of replacing it
handle_enumeration_end_merging(p, frame, now) ==
    LET ids == p.persistent_state.gateway_identities
        buf == p.enum_state[1].gateway_identities
        p1 == [p EXCEPT
                 !.persistent_state.gateway_identities =
                     [gw \in (DOMAIN ids) \cup (DOMAIN buf) |->
                         IF gw \in DOMAIN buf THEN buf[gw] ELSE ids[gw]],
                 !.persistent_state.gateway_versions = p.enum_state[1].gateway_versions,
                 !.enum_state = None]
    IN  IF ~frame.address.is_from THEN Ret(p, <<>>)
        ELSE IF p.enum_state # None THEN Ret(p1, emit_infrastructure_event(p1, now))
        ELSE Ret(p, <<>>)

\* Parser._handle_enumeration_end
handle_enumeration_end(p, frame, now) ==
    LET p1 == [p EXCEPT
                 !.persistent_state.gateway_identities = p.enum_state[1].gateway_identities,
                 !.persistent_state.gateway_versions = p.enum_state[1].gateway_versions,
                 !.enum_state = None]
    IN  IF ~frame.address.is_from THEN Ret(p, <<>>)
        ELSE IF p.enum_state # None THEN Ret(p1, emit_infrastructure_event(p1, now))
        ELSE Ret(p, <<>>)

---------------------------------------------------------------------------
(* core/parser.py: dispatch and feed                                       *)

\* Parser._dispatch_frame
dispatch_frame(p, frame, now) ==
    IF frame.frame_type \notin FrameType THEN Ret(p, <<>>)
    ELSE CASE frame.frame_type = RECEIVE_REQUEST -> handle_receive_request(p, frame, now)
           [] frame.frame_type = RECEIVE_RESPONSE -> handle_receive_response(p, frame, now)
           [] frame.frame_type = COMMAND_REQUEST -> handle_command_request(p, frame)
           [] frame.frame_type = COMMAND_RESPONSE -> handle_command_response(p, frame, now)
           [] frame.frame_type = ENUMERATION_START_REQUEST ->
                handle_enumeration_start(p, frame)
           [] frame.frame_type = ENUMERATION_RESPONSE ->
                handle_enumeration_response(p, frame, now)
           [] frame.frame_type = IDENTIFY_RESPONSE ->
                handle_identify_response(p, frame, now)
           [] frame.frame_type = VERSION_RESPONSE -> handle_version_response(p, frame, now)
           [] frame.frame_type = ENUMERATION_END_RESPONSE ->
                handle_enumeration_end(p, frame, now)
           [] OTHER -> Ret(p, <<>>)

\* one iteration of the loop of Parser.feed: the byte goes through
\* _accumulate and a returned frame is counted and dispatched.  closes is the
\* observation of a frame close (the byte 08 after 7E inside a frame): the
\* unescaped content, the decoded frame if any, the parser before the byte
\* and after the iteration, and the events of the iteration.
feed_byte_result(p, byte, a, d) ==
    [p |-> d.p,
     events |-> d.events,
     raised |-> d.raised,
     closes |-> IF p.state = "FRAME_ESCAPE" /\ byte = 8
                THEN <<[content |-> p.buffer, frame |-> a.frame, pre |-> p,
                        post |-> d.p, events |-> d.events, raised |-> d.raised]>>
                ELSE <<>>]

\* the body of the loop of Parser.feed after _accumulate returned a: a frame
\* is counted and dispatched
feed_byte_dispatch(p, byte, a, now) ==
    feed_byte_result(p, byte, a,
                     IF a.frame = None THEN Ret(a.p, <<>>)
                     ELSE dispatch_frame([a.p EXCEPT !.counters.frames_received = @ + 1],
                                         a.frame[1], now))

\* one iteration of the loop of Parser.feed
feed_byte(p, byte, now) == feed_byte_dispatch(p, byte, accumulate(p, byte), now)

\* the loop of Parser.feed over bytes lo..hi of data (1-based, inclusive):
\* the bytes go through feed_byte one after the other, each starting from the
\* parser the one before left; the range is halved to keep the evaluation
\* shallow.  An exception ends the loop: the bytes after the frame that raised
\* are not processed.
RECURSIVE feed_range(_, _, _, _, _)
RECURSIVE feed_rest(_, _, _, _, _)
feed_range(p, data, lo, hi, now) ==
    IF lo > hi THEN [p |-> p, events |-> <<>>, raised |-> FALSE, closes |-> <<>>]
    ELSE IF lo = hi THEN feed_byte(p, data[lo], now)
    ELSE feed_rest(feed_range(p, data, lo, (lo + hi) \div 2, now),
                   data, (lo + hi) \div 2 + 1, hi, now)

\* events.extend(...) in the loop of Parser.feed: what bytes lo..hi add to
\* left, the outcome of the bytes before them
feed_extend(left, right) ==
    [p |-> right.p,
     events |-> left.events \o right.events,
     raised |-> right.raised,
     closes |-> left.closes \o right.closes]

feed_rest(left, data, lo, hi, now) ==
    IF left.raised THEN left
    ELSE feed_extend(left, feed_range(left.p, data, lo, hi, now))

\* the return of Parser.feed: when an exception leaves the call no list is
\* returned
feed_return(r) == IF r.raised THEN [r EXCEPT !.events = <<>>] ELSE r

\* Parser.feed.  now is the reading of datetime.now() during the call.
feed(p, data, now) == feed_return(feed_range(p, data, 1, Len(data), now))

\* a variant that leaves the buffer as it is
reset_keeping(p) == [p EXCEPT !.state = "IDLE"]

\* Parser.reset
reset(p) == [p EXCEPT !.state = "IDLE", !.buffer = <<>>]

---------------------------------------------------------------------------
(* The bytes on the wire (what Parser._accumulate and _decode_frame read):  *)
(* 7E 07, the escaped content, 7E 08; the content is the link address, the *)
(* frame type, the payload and the CRC of these, low byte first.           *)

\* a content byte as sent: the bytes of _UNESCAPE_MAP's values are escaped
escape_byte(b) ==
    IF \E k \in DOMAIN UNESCAPE_MAP : UNESCAPE_MAP[k] = b
    THEN <<126, CHOOSE k \in DOMAIN UNESCAPE_MAP : UNESCAPE_MAP[k] = b>>
    ELSE <<b>>

\* bytes lo..hi of data (1-based, inclusive), escaped
RECURSIVE escape_range(_, _, _)
escape_range(data, lo, hi) ==
    IF lo > hi THEN <<>>
    ELSE IF lo = hi THEN escape_byte(data[lo])
    ELSE escape_range(data, lo, (lo + hi) \div 2)
         \o escape_range(data, (lo + hi) \div 2 + 1, hi)

escape(data) == escape_range(data, 1, Len(data))

\* body followed by its CRC, low byte first
with_crc(body) == body \o <<crc(body) % 256, crc(body) \div 256>>

\* the content of a frame with a valid CRC
frame_content(address, frame_type, payload) ==
    with_crc(<<address \div 256, address % 256, frame_type \div 256, frame_type % 256>>
             \o payload)

\* the bytes of a whole frame
wire(content) == <<126, 7>> \o escape(content) \o <<126, 8>>

encode_frame(address, frame_type, payload) ==
    wire(frame_content(address, frame_type, payload))

\* link addresses: host to gateway, gateway to host
To(gw) == gw

From(gw) == 32768 + gw

---------------------------------------------------------------------------
(* Energy accumulation (custom_components/pytap/energy.py).  Powers are     *)
(* integers counting watts, datetimes integers counting seconds, dates the  *)
(* number of the day; energies are integers counting 1/7200 Wh, so that    *)
(* ((a + b) / 2) * (d / 3600) Wh is the integer (a + b) * d.                *)

ENERGY_GAP_THRESHOLD_SECONDS == 120

ENERGY_LOW_POWER_THRESHOLD_W == 1

SecondsPerDay == 86400

Max(a, b) == IF a > b THEN a ELSE b

\* now.date().isoformat()
date(t) == t \div SecondsPerDay

\* EnergyAccumulator(daily_reset_date=...), the date None for the default ""
EnergyAccumulator_new(daily_reset_date) ==
    [daily_energy_wh |-> 0,
     total_energy_wh |-> 0,
     daily_reset_date |-> daily_reset_date,
     last_power_w |-> 0,
     last_reading_ts |-> None]

\* the attributes an EnergyAccumulator has
EnergyAccumulator_attributes == DOMAIN EnergyAccumulator_new(None)

\* a reset that takes the date and keeps the daily energy
reset_daily_keeping(acc, today) ==
    [acc EXCEPT !.daily_reset_date = Some(today)]

\* the daily reset of accumulate_energy
reset_daily(acc, today) ==
    IF acc.daily_reset_date # Some(today)
    THEN [acc EXCEPT !.daily_energy_wh = 0, !.daily_reset_date = Some(today)]
    ELSE acc

\* the rectangle under the new reading alone
trapezoid_rectangle(previous_power_w, power_w, delta_seconds) ==
    2 * power_w * delta_seconds

\* the trapezoid between two readings, in 1/7200 Wh
trapezoid(previous_power_w, power_w, delta_seconds) ==
    (previous_power_w + power_w) * delta_seconds

\* a gap longer than the threshold with production before it
gap_after_production(previous_power_w, power_w, low_power_threshold) ==
    previous_power_w > low_power_threshold

\* a gap longer than the threshold with production on either side
gap_during_production(previous_power_w, power_w, low_power_threshold) ==
    previous_power_w > low_power_threshold \/ power_w > low_power_threshold

\* the accumulator after integrating increment_wh and taking the reading
record_reading(acc, power_w, now_s, increment_wh, discarded) ==
    [acc |-> [acc EXCEPT !.daily_energy_wh = @ + increment_wh,
                         !.total_energy_wh = @ + increment_wh,
                         !.last_power_w = power_w,
                         !.last_reading_ts = Some(now_s)],
     result |-> [increment_wh |-> increment_wh,
                 discarded_gap_during_production |-> discarded]]

\* a variant that leaves the last reading alone when the sample is not
\* later than it
integrate_keeping_last(acc, power_w, now_s, gap_threshold, low_power_threshold) ==
    IF acc.last_reading_ts = None
    THEN record_reading(acc, power_w, now_s, 0, FALSE)
    ELSE IF now_s - acc.last_reading_ts[1] <= 0
    THEN [acc |-> acc,
          result |-> [increment_wh |-> 0, discarded_gap_during_production |-> FALSE]]
    ELSE IF now_s - acc.last_reading_ts[1] <= gap_threshold
    THEN record_reading(acc, power_w, now_s,
                        trapezoid(Max(acc.last_power_w, 0), power_w,
                                  now_s - acc.last_reading_ts[1]),
                        FALSE)
    ELSE record_reading(acc, power_w, now_s, 0,
                        gap_during_production(Max(acc.last_power_w, 0), power_w,
                                              low_power_threshold))

\* the integration step of accumulate_energy, after the daily reset
integrate(acc, power_w, now_s, gap_threshold, low_power_threshold) ==
    IF acc.last_reading_ts = None
    THEN record_reading(acc, power_w, now_s, 0, FALSE)
    ELSE IF /\ 0 < now_s - acc.last_reading_ts[1]
            /\ now_s - acc.last_reading_ts[1] <= gap_threshold
    THEN record_reading(acc, power_w, now_s,
                        trapezoid(Max(acc.last_power_w, 0), power_w,
                                  now_s - acc.last_reading_ts[1]),
                        FALSE)
    ELSE record_reading(acc, power_w, now_s, 0,
                        /\ now_s - acc.last_reading_ts[1] > gap_threshold
                        /\ gap_during_production(Max(acc.last_power_w, 0), power_w,
                                                 low_power_threshold))

\* a variant that takes the power as it comes
accumulate_energy_unclamped(acc, power, now_s, gap_threshold, low_power_threshold) ==
    integrate(reset_daily(acc, date(now_s)), power, now_s,
              gap_threshold, low_power_threshold)

\* accumulate_energy(acc, power, now, gap_threshold, low_power_threshold):
\* the accumulator it leaves and the EnergyUpdateResult it returns
accumulate_energy(acc, power, now_s, gap_threshold, low_power_threshold) ==
    integrate(reset_daily(acc, date(now_s)), Max(power, 0), now_s,
              gap_threshold, low_power_threshold)

---------------------------------------------------------------------------
(* The coordinator (custom_components/pytap/coordinator.py).  A coordinator *)
(* is the record of its fields; a handler gives the coordinator it leaves,  *)
(* the value it returns and whether it raised instead.  The nodes of an     *)
(* InfrastructureEvent are the items of its dict, in the dict's order.  The *)
(* sorted list data["discovered_barcodes"] is the set it lists.             *)

Returns(c, value) == [c |-> c, result |-> value, raised |-> FALSE]

Raises(c) == [c |-> c, result |-> FALSE, raised |-> TRUE]

\* PyTapDataUpdateCoordinator.__init__ for an entry with the given barcodes
Coordinator_new(configured) ==
    [configured_barcodes |-> configured,
     barcode_to_node |-> EmptyDict,
     node_to_barcode |-> EmptyDict,
     infra_received |-> FALSE,
     discovered_barcodes |-> {},
     pending_power_reports |-> 0,
     unsaved_changes |-> FALSE,
     save_task |-> FALSE,
     energy_state |-> EmptyDict,
     data |-> [gateways |-> EmptyDict, nodes |-> EmptyDict,
               discovered_barcodes |-> {}]]

SAVE_DELAY_SECONDS == 10

\* _do_schedule on the event loop at time t: the timer _save_task refers
\* to, the one armed last, is cancelled and one of SAVE_DELAY_SECONDS is
\* started.  timers holds the due times of the pending timers.
do_schedule(timers, t) ==
    (timers \ {d \in timers : \A e \in timers : e <= d}) \cup {t + SAVE_DELAY_SECONDS}

\* _schedule_save: the flag, and the debounce timer armed on the event loop
schedule_save(c) == [c EXCEPT !.unsaved_changes = TRUE, !.save_task = TRUE]

\* the entry of data["nodes"] that _handle_power_report builds; its energy
\* figures are those of the accumulator
node_entry(event, barcode, acc, now_s) ==
    [gateway_id |-> event.gateway_id,
     node_id |-> event.node_id,
     barcode |-> barcode,
     power |-> event.power,
     daily_energy_wh |-> acc.daily_energy_wh,
     total_energy_wh |-> acc.total_energy_wh,
     readings_today |-> acc.readings_today,
     daily_reset_date |-> acc.daily_reset_date,
     last_update |-> now_s]

\* the end of _handle_power_report, update being what accumulate_energy gave
\* for the accumulator of the barcode: the dict display reads
\* acc.readings_today, an AttributeError when EnergyAccumulator has no such
\* attribute, raised after the accumulator was updated and before
\* data["nodes"] is assigned
store_reading(c, event, barcode, update, now_s) ==
    IF "readings_today" \notin EnergyAccumulator_attributes
    THEN Raises([c EXCEPT !.energy_state = DictPut(@, barcode, update.acc)])
    ELSE Returns(schedule_save(
                     [c EXCEPT !.energy_state = DictPut(@, barcode, update.acc),
                               !.data.nodes =
                                   DictPut(@, barcode,
                                           node_entry(event, barcode, update.acc,
                                                      now_s))]),
                 TRUE)

\* _handle_power_report for a barcode of the allow-list
track_reading(c, event, barcode, now_s) ==
    store_reading(c, event, barcode,
                  accumulate_energy(
                      IF barcode \in DOMAIN c.energy_state
                      THEN c.energy_state[barcode]
                      ELSE EnergyAccumulator_new(Some(date(now_s))),
                      event.power, now_s,
                      ENERGY_GAP_THRESHOLD_SECONDS, ENERGY_LOW_POWER_THRESHOLD_W),
                  now_s)

\* the barcode _handle_power_report works with
resolve_barcode(c, event) ==
    IF /\ event.barcode = None
       /\ c.infra_received
       /\ event.node_id \in DOMAIN c.node_to_barcode
    THEN Some(c.node_to_barcode[event.node_id])
    ELSE event.barcode

\* a variant without the allow-list: every barcode is tracked
handle_resolved_report_unfiltered(c, event, barcode, now_s) ==
    IF barcode = None
    THEN Returns([c EXCEPT !.pending_power_reports = @ + 1], FALSE)
    ELSE track_reading(c, event, barcode[1], now_s)

\* _handle_power_report from the resolved barcode on
handle_resolved_report(c, event, barcode, now_s) ==
    IF barcode = None
    THEN Returns([c EXCEPT !.pending_power_reports = @ + 1], FALSE)
    ELSE IF barcode[1] \notin c.configured_barcodes
    THEN IF barcode[1] \notin c.discovered_barcodes
         THEN Returns(schedule_save(
                          [c EXCEPT !.discovered_barcodes = @ \cup {barcode[1]},
                                    !.data.discovered_barcodes =
                                        c.discovered_barcodes \cup {barcode[1]}]),
                      TRUE)
         ELSE Returns(c, FALSE)
    ELSE track_reading(c, event, barcode[1], now_s)

\* PyTapDataUpdateCoordinator._handle_power_report
Coordinator_handle_power_report(c, event, now_s) ==
    handle_resolved_report(c, event, resolve_barcode(c, event), now_s)

\* the items of event.nodes that carry a barcode
barcode_items(nodes) == {i \in 1..Len(nodes) : nodes[i].barcode # None}

\* new_node_to_barcode of _handle_infrastructure
new_node_to_barcode(nodes) ==
    [n \in {nodes[i].node_id : i \in barcode_items(nodes)} |->
        nodes[CHOOSE i \in barcode_items(nodes) : nodes[i].node_id = n].barcode[1]]

\* new_barcode_to_node of _handle_infrastructure: the last item of a barcode
\* is the one that stays
new_barcode_to_node(nodes) ==
    [b \in {nodes[i].barcode[1] : i \in barcode_items(nodes)} |->
        nodes[CHOOSE i \in barcode_items(nodes) :
                  /\ nodes[i].barcode[1] = b
                  /\ \A j \in barcode_items(nodes) :
                        nodes[j].barcode[1] = b => j <= i].node_id]

\* the barcodes of the event that _handle_infrastructure adds to the
\* discovered set
newly_discovered(c, nodes) ==
    {nodes[i].barcode[1] : i \in barcode_items(nodes)}
        \ (c.configured_barcodes \cup c.discovered_barcodes)

\* a variant that adds the event's pairs to the maps it finds
replace_mappings_merging(c, b2n, n2b, discovered_changed) ==
    Returns(schedule_save(
                [c EXCEPT !.barcode_to_node =
                              [b \in (DOMAIN @) \cup (DOMAIN b2n) |->
                                  IF b \in DOMAIN b2n THEN b2n[b] ELSE @[b]],
                          !.node_to_barcode =
                              [n \in (DOMAIN @) \cup (DOMAIN n2b) |->
                                  IF n \in DOMAIN n2b THEN n2b[n] ELSE @[n]],
                          !.pending_power_reports = 0]),
            TRUE)

\* the end of _handle_infrastructure for an event with a node table: the
\* maps are replaced, and a save is scheduled when they or the discovered
\* set changed
replace_mappings(c, b2n, n2b, discovered_changed) ==
    Returns(IF \/ discovered_changed
               \/ b2n # c.barcode_to_node
               \/ n2b # c.node_to_barcode
            THEN schedule_save([c EXCEPT !.barcode_to_node = b2n,
                                         !.node_to_barcode = n2b,
                                         !.pending_power_reports = 0])
            ELSE [c EXCEPT !.barcode_to_node = b2n,
                           !.node_to_barcode = n2b,
                           !.pending_power_reports = 0],
            TRUE)

\* _handle_infrastructure after the flag, the gateways and the discovered
\* barcodes are updated
rebuild_mappings(c, event, discovered_changed) ==
    IF Len(event.nodes) = 0
    THEN Returns(IF event.gateways # EmptyDict THEN schedule_save(c) ELSE c, TRUE)
    ELSE replace_mappings(c, new_barcode_to_node(event.nodes),
                          new_node_to_barcode(event.nodes), discovered_changed)

\* PyTapDataUpdateCoordinator._handle_infrastructure
Coordinator_handle_infrastructure(c, event) ==
    rebuild_mappings(
        [c EXCEPT !.infra_received = @ \/ Len(event.nodes) > 0,
                  !.data.gateways = event.gateways,
                  !.discovered_barcodes = @ \cup newly_discovered(c, event.nodes),
                  !.data.discovered_barcodes =
                      IF newly_discovered(c, event.nodes) # {}
                      THEN c.discovered_barcodes \cup newly_discovered(c, event.nodes)
                      ELSE @],
        event, newly_discovered(c, event.nodes) # {})

\* PyTapDataUpdateCoordinator._handle_topology
Coordinator_handle_topology(c, event) ==
    IF /\ event.node_id \in DOMAIN c.node_to_barcode
       /\ c.node_to_barcode[event.node_id] \in c.configured_barcodes
       /\ c.node_to_barcode[event.node_id] \in DOMAIN c.data.nodes
    THEN Returns([c EXCEPT !.data.nodes[c.node_to_barcode[event.node_id]] =
                               DictPut(@, "topology", event)],
                 TRUE)
    ELSE Returns(c, FALSE)

\* PyTapDataUpdateCoordinator._process_event
process_event(c, event, now_s) ==
    IF event.event_type = "power_report"
    THEN Coordinator_handle_power_report(c, event, now_s)
    ELSE IF event.event_type = "infrastructure"
    THEN Coordinator_handle_infrastructure(c, event)
    ELSE IF event.event_type = "topology"
    THEN Coordinator_handle_topology(c, event)
    ELSE Returns(c, FALSE)

\* the EnergyAccumulator that _async_load_coordinator_state builds from a
\* stored entry: the daily figures start again when the stored date is not
\* today's
restored_accumulator(energy_data, today) ==
    [daily_energy_wh |-> IF energy_data.daily_reset_date # Some(today) THEN 0
                         ELSE energy_data.daily_energy_wh,
     total_energy_wh |-> energy_data.total_energy_wh,
     daily_reset_date |-> Some(today),
     last_power_w |-> energy_data.last_power_w,
     last_reading_ts |-> energy_data.last_reading_ts,
     readings_today |-> IF energy_data.daily_reset_date # Some(today) THEN 0
                        ELSE energy_data.readings_today]

\* the accumulators after the loop over the stored energy data
restored_energy_state(c, energy_data, today) ==
    [b \in (DOMAIN c.energy_state) \cup (DOMAIN energy_data) |->
        IF b \in DOMAIN energy_data
        THEN restored_accumulator(energy_data[b], today)
        ELSE c.energy_state[b]]

\* the entry of data["nodes"] that _async_load_coordinator_state builds for
\* a configured barcode with an accumulator
restored_entry(c, barcode, acc) ==
    [gateway_id |-> None,
     node_id |-> DictGet(c.barcode_to_node, barcode),
     barcode |-> barcode,
     power |-> None,
     daily_energy_wh |-> acc.daily_energy_wh,
     total_energy_wh |-> acc.total_energy_wh,
     readings_today |-> acc.readings_today,
     daily_reset_date |-> acc.daily_reset_date,
     last_update |-> None]

\* the energy part of _async_load_coordinator_state, stored being the
\* stored energy data.  The constructor call
\* EnergyAccumulator(readings_today=...) is a TypeError, and the read of
\* acc.readings_today for a configured barcode an AttributeError, when
\* EnergyAccumulator has no such attribute; neither is caught
restore_energy(c, stored, energy, today) ==
    IF "readings_today" \notin EnergyAccumulator_attributes
    THEN IF \/ stored # EmptyDict
            \/ c.configured_barcodes \cap DOMAIN c.energy_state # {}
         THEN Raises(c)
         ELSE Returns(c, TRUE)
    ELSE Returns([c EXCEPT !.energy_state = energy,
                           !.data.nodes =
                               [b \in (DOMAIN @) \cup (c.configured_barcodes
                                                        \cap DOMAIN energy) |->
                                   IF b \in c.configured_barcodes \cap DOMAIN energy
                                   THEN restored_entry(c, b, energy[b])
                                   ELSE @[b]]],
                 TRUE)

\* PyTapDataUpdateCoordinator._async_load_coordinator_state, stored being
\* what the store holds (None, or a dict whose barcode_to_node is one to one)
load_coordinator_state(c, stored, now_s) ==
    IF stored = None THEN Returns(c, TRUE)
    ELSE restore_energy(
             [c EXCEPT
                !.barcode_to_node =
                    [b \in (DOMAIN @) \cup (DOMAIN stored[1].barcode_to_node) |->
                        IF b \in DOMAIN stored[1].barcode_to_node
                        THEN stored[1].barcode_to_node[b] ELSE @[b]],
                !.node_to_barcode =
                    [n \in (DOMAIN @) \cup {stored[1].barcode_to_node[b] :
                                               b \in DOMAIN stored[1].barcode_to_node} |->
                        IF \E b \in DOMAIN stored[1].barcode_to_node :
                               stored[1].barcode_to_node[b] = n
                        THEN CHOOSE b \in DOMAIN stored[1].barcode_to_node :
                                 stored[1].barcode_to_node[b] = n
                        ELSE @[n]],
                !.discovered_barcodes = stored[1].discovered_barcodes,
                !.data.discovered_barcodes = stored[1].discovered_barcodes],
             stored[1].energy_data,
             restored_energy_state(c, stored[1].energy_data, date(now_s)),
             date(now_s))

\* the attributes a PersistentState has
PersistentState_attributes ==
    {"gateway_identities", "gateway_versions", "gateway_node_tables", "save", "load"}

\* PyTapDataUpdateCoordinator._async_save_coordinator_state: the flag is
\* cleared, and the dict display calls self._persistent_state.to_dict(), an
\* AttributeError when PersistentState has no such method, raised before
\* the store is written
save_coordinator_state(c) ==
    IF "to_dict" \notin PersistentState_attributes
    THEN Raises([c EXCEPT !.unsaved_changes = FALSE])
    ELSE Returns([c EXCEPT !.unsaved_changes = FALSE], TRUE)

\* the parameters of pytap.api.create_parser
create_parser_parameters == {"state_file"}

---------------------------------------------------------------------------
(* pytap/api.py: observe.  A call is the record of its locals: where it is *)
(* (about to connect, in the read loop, returned), retries, the source and *)
(* the reconnect_retries it was given.  Three further fields observe the   *)
(* call: got_data, whether a read of the current source has returned data; *)
(* fruitless, the number of attempts in a row that ended without one; and  *)
(* attempts, the number of connect calls made.                             *)

\* observe down to the head of its loop
observe_new(reconnect_retries) ==
    [pc |-> "connect", retries |-> 0, source |-> "none",
     reconnect_retries |-> reconnect_retries,
     got_data |-> FALSE, fruitless |-> 0, attempts |-> 0]

\* connect returned a source: retries is reset and the read loop entered
observe_connected(o) ==
    [o EXCEPT !.source = "open", !.retries = 0, !.pc = "read",
              !.got_data = FALSE, !.attempts = @ + 1]

\* the end of an iteration of the outer loop, an exception caught or the
\* read loop left: the source at hand is closed, retries is incremented and
\* observe returns when a positive reconnect_retries is exceeded
observe_retry(o) ==
    [o EXCEPT !.source = IF @ = "none" THEN @ ELSE "closed",
              !.retries = @ + 1,
              !.pc = IF /\ o.reconnect_retries > 0
                        /\ o.retries + 1 > o.reconnect_retries
                     THEN "returned" ELSE "connect",
              !.fruitless = IF o.got_data THEN 0 ELSE @ + 1]

\* connect raised
observe_connect_failed(o) ==
    observe_retry([o EXCEPT !.got_data = FALSE, !.attempts = @ + 1])

\* source.read returned data
observe_read(o) == [o EXCEPT !.got_data = TRUE, !.fruitless = 0]

---------------------------------------------------------------------------
(* State                                                                   *)

VARIABLES
    state,                     \* Parser._state
    buffer,                    \* Parser._buffer
    rx_packet_numbers,         \* Parser._rx_packet_numbers
    commands_awaiting,         \* Parser._commands_awaiting
    command_sequence_numbers,  \* Parser._command_sequence_numbers
    slot_clocks,               \* Parser._slot_clocks
    captured_slot_times,       \* Parser._captured_slot_times
    enum_state,                \* Parser._enum_state
    persistent_state,          \* Parser._persistent_state
    node_table_builders,       \* Parser._node_table_builders
    counters,                  \* Parser._counters
    now,                       \* the wall clock, in ms
    nfeeds,                    \* the number of feed calls made
    last,                      \* observation of the last feed call
    window_events,             \* InfrastructureEvents of the enumeration window
    transfers,                 \* the NODE_TABLE transfers seen, per gateway
    configured_barcodes,       \* PyTapDataUpdateCoordinator._configured_barcodes
    barcode_to_node,           \* PyTapDataUpdateCoordinator._barcode_to_node
    node_to_barcode,           \* PyTapDataUpdateCoordinator._node_to_barcode
    infra_received,            \* PyTapDataUpdateCoordinator._infra_received
    discovered_barcodes,       \* PyTapDataUpdateCoordinator._discovered_barcodes
    pending_power_reports,     \* PyTapDataUpdateCoordinator._pending_power_reports
    unsaved_changes,           \* PyTapDataUpdateCoordinator._unsaved_changes
    save_task,                 \* PyTapDataUpdateCoordinator._save_task is armed
    energy_state,              \* PyTapDataUpdateCoordinator._energy_state
    coordinator_data,          \* PyTapDataUpdateCoordinator.data
    stop_event,                \* PyTapDataUpdateCoordinator._stop_event is set
    source,                    \* PyTapDataUpdateCoordinator._source
    listener,                  \* where the thread running _listen is
    starter,                   \* where async_start_listener is
    stopper,                   \* where async_stop_listener is
    wall,                      \* dt_util.now(), in seconds
    nevents,                   \* the number of _process_event calls made
    handled,                   \* observation of the last _process_event call
    loop_timers,               \* due times of the save timers pending on the event loop
    scheduled_at,              \* the time of the last _schedule_save call
    accumulator,               \* an EnergyAccumulator
    nsamples,                  \* the number of accumulate_energy calls made on it
    sample,                    \* observation of the last accumulate_energy call
    samples_today,             \* the calls since daily_reset_date last changed
    reset_call,                \* observation of the last Parser.reset call
    observer,                  \* where a call of pytap.api.observe is
    loaded,                    \* a stored document and what PersistentState.load made of it
    clock                      \* a SlotClock and the calls made on it

parser_vars ==
    <<state, buffer, rx_packet_numbers, commands_awaiting, command_sequence_numbers,
      slot_clocks, captured_slot_times, enum_state, persistent_state,
      node_table_builders, counters, now, nfeeds, last, window_events, transfers>>

coordinator_vars ==
    <<configured_barcodes, barcode_to_node, node_to_barcode, infra_received,
      discovered_barcodes, pending_power_reports, unsaved_changes, save_task,
      energy_state, coordinator_data, stop_event, source, listener, starter,
      stopper, wall, nevents, handled, loop_timers, scheduled_at>>

energy_vars == <<accumulator, nsamples, sample, samples_today>>

library_vars == <<reset_call, observer, loaded, clock>>

vars == <<parser_vars, coordinator_vars, energy_vars, library_vars>>

\* the Parser object
Cur ==
    [state |-> state,
     buffer |-> buffer,
     rx_packet_numbers |-> rx_packet_numbers,
     commands_awaiting |-> commands_awaiting,
     command_sequence_numbers |-> command_sequence_numbers,
     slot_clocks |-> slot_clocks,
     captured_slot_times |-> captured_slot_times,
     enum_state |-> enum_state,
     persistent_state |-> persistent_state,
     node_table_builders |-> node_table_builders,
     counters |-> counters]

Install(p) ==
    /\ state' = p.state
    /\ buffer' = p.buffer
    /\ rx_packet_numbers' = p.rx_packet_numbers
    /\ commands_awaiting' = p.commands_awaiting
    /\ command_sequence_numbers' = p.command_sequence_numbers
    /\ slot_clocks' = p.slot_clocks
    /\ captured_slot_times' = p.captured_slot_times
    /\ enum_state' = p.enum_state
    /\ persistent_state' = p.persistent_state
    /\ node_table_builders' = p.node_table_builders
    /\ counters' = p.counters

\* the coordinator object
Coordinator ==
    [configured_barcodes |-> configured_barcodes,
     barcode_to_node |-> barcode_to_node,
     node_to_barcode |-> node_to_barcode,
     infra_received |-> infra_received,
     discovered_barcodes |-> discovered_barcodes,
     pending_power_reports |-> pending_power_reports,
     unsaved_changes |-> unsaved_changes,
     save_task |-> save_task,
     energy_state |-> energy_state,
     data |-> coordinator_data]

InstallCoordinator(c) ==
    /\ configured_barcodes' = c.configured_barcodes
    /\ barcode_to_node' = c.barcode_to_node
    /\ node_to_barcode' = c.node_to_barcode
    /\ infra_received' = c.infra_received
    /\ discovered_barcodes' = c.discovered_barcodes
    /\ pending_power_reports' = c.pending_power_reports
    /\ unsaved_changes' = c.unsaved_changes
    /\ save_task' = c.save_task
    /\ energy_state' = c.energy_state
    /\ coordinator_data' = c.data

NoCall == [data |-> <<>>, events |-> <<>>, raised |-> FALSE, closes |-> <<>>]

NoEvent == [event |-> None, pre |-> None, post |-> None, now |-> None,
            result |-> FALSE, raised |-> FALSE]

NoSample == [pre |-> None, power |-> None, now |-> None, result |-> None]

\* a coordinator as constructed for an entry with the given barcodes, its
\* listener not started
InitCoordinator(configured) ==
    /\ configured_barcodes = Coordinator_new(configured).configured_barcodes
    /\ barcode_to_node = Coordinator_new(configured).barcode_to_node
    /\ node_to_barcode = Coordinator_new(configured).node_to_barcode
    /\ infra_received = Coordinator_new(configured).infra_received
    /\ discovered_barcodes = Coordinator_new(configured).discovered_barcodes
    /\ pending_power_reports = Coordinator_new(configured).pending_power_reports
    /\ unsaved_changes = Coordinator_new(configured).unsaved_changes
    /\ save_task = Coordinator_new(configured).save_task
    /\ energy_state = Coordinator_new(configured).energy_state
    /\ coordinator_data = Coordinator_new(configured).data
    /\ stop_event = FALSE
    /\ source = None
    /\ listener = "not started"
    /\ starter = "not called"
    /\ stopper = "not called"
    /\ wall = 0
    /\ nevents = 0
    /\ handled = NoEvent
    /\ loop_timers = {}
    /\ scheduled_at = None

\* an accumulator as constructed with the given reset date
InitAccumulator(daily_reset_date) ==
    /\ accumulator = EnergyAccumulator_new(daily_reset_date)
    /\ nsamples = 0
    /\ sample = NoSample
    /\ samples_today = 0

\* no call made yet on the parser's reset, on observe, on load or on a clock
InitLibrary ==
    /\ reset_call = None
    /\ observer = None
    /\ loaded = None
    /\ clock = None

\* a Parser as constructed, holding the given PersistentState
InitParser(persistent) ==
    /\ state = Parser_new(persistent).state
    /\ buffer = Parser_new(persistent).buffer
    /\ rx_packet_numbers = Parser_new(persistent).rx_packet_numbers
    /\ commands_awaiting = Parser_new(persistent).commands_awaiting
    /\ command_sequence_numbers = Parser_new(persistent).command_sequence_numbers
    /\ slot_clocks = Parser_new(persistent).slot_clocks
    /\ captured_slot_times = Parser_new(persistent).captured_slot_times
    /\ enum_state = Parser_new(persistent).enum_state
    /\ persistent_state = Parser_new(persistent).persistent_state
    /\ node_table_builders = Parser_new(persistent).node_table_builders
    /\ counters = Parser_new(persistent).counters
    /\ now = 0
    /\ nfeeds = 0
    /\ last = NoCall
    /\ window_events = 0
    /\ transfers = EmptyDict

\* a Parser as constructed, holding the given PersistentState, beside a
\* coordinator and an accumulator as constructed
InitWith(persistent) ==
    /\ InitParser(persistent)
    /\ InitCoordinator({})
    /\ InitAccumulator(None)
    /\ InitLibrary

\* the InfrastructureEvents among events
InfrastructureEvents(events) ==
    SelectSeq(events, LAMBDA e : e.event_type = "infrastructure")

\* an ENUMERATION_START_REQUEST that _handle_enumeration_start accepts
AcceptedStart(close) ==
    /\ close.frame # None
    /\ close.frame[1].frame_type = ENUMERATION_START_REQUEST
    /\ ~close.frame[1].address.is_from
    /\ close.frame[1].address.gateway_id = 0
    /\ Len(close.frame[1].payload) >= 6

\* the number of InfrastructureEvents emitted in the enumeration window, n so
\* far, after the frame closes from i on: an accepted start request opens a
\* window (count 0), and every other frame handled while an enumeration
\* state exists, the committing end response included, adds the
\* InfrastructureEvents it emits
RECURSIVE count_window_events(_, _, _)
count_window_events(n, closes, i) ==
    IF i > Len(closes) THEN n
    ELSE count_window_events(
             IF AcceptedStart(closes[i]) THEN 0
             ELSE IF closes[i].pre.enum_state # None
             THEN n + Len(InfrastructureEvents(closes[i].events))
             ELSE n,
             closes, i + 1)

\* a frame close that _handle_command_response pairs with a stored
\* NODE_TABLE_REQUEST and that _handle_node_table_command takes as a page:
\* request payload of 2 bytes or more, response of count * 10 entry bytes
TransferPage(c) ==
    /\ c.frame # None
    /\ c.frame[1].frame_type = COMMAND_RESPONSE
    /\ c.frame[1].address.is_from
    /\ Len(c.frame[1].payload) >= 6
    /\ <<c.frame[1].address.gateway_id, c.frame[1].payload[5]>>
         \in DOMAIN c.pre.commands_awaiting
    /\ LET req == c.pre.commands_awaiting[<<c.frame[1].address.gateway_id,
                                             c.frame[1].payload[5]>>]
       IN  /\ req.packet_type = NODE_TABLE_REQUEST
           /\ Len(req.payload) >= 2
    /\ c.frame[1].payload[4] = NODE_TABLE_RESPONSE
    /\ Len(c.frame[1].payload) - 6 = c.frame[1].payload[6] * 10

\* the transfer of a gateway: the entries of the pages received since the
\* last terminator, and the entries of the last transfer that a terminator
\* (a page with count 0) completed, if any
TransferOf(t, gw) ==
    IF gw \in DOMAIN t THEN t[gw] ELSE [pages |-> EmptyDict, completed |-> None]

\* the transfers after one more page of gateway gw
transfer_page(t, gw, tr, payload) ==
    DictPut(t, gw,
            IF payload[6] = 0
            THEN [pages |-> EmptyDict, completed |-> Some(tr.pages)]
            ELSE [pages |-> push_entries(tr.pages,
                                         node_table_entries(SliceFrom(payload, 6),
                                                            payload[6]), 1),
                  completed |-> tr.completed])

\* the transfers after the frame closes from i on
RECURSIVE track_transfers(_, _, _)
track_transfers(t, closes, i) ==
    IF i > Len(closes) THEN t
    ELSE track_transfers(
             IF TransferPage(closes[i])
             THEN transfer_page(t, closes[i].frame[1].address.gateway_id,
                                TransferOf(t, closes[i].frame[1].address.gateway_id),
                                closes[i].frame[1].payload)
             ELSE t,
             closes, i + 1)

\* the parser and the observations after parser.feed(data) came back with r
Returned(data, r) ==
    /\ Install(r.p)
    /\ last' = [data |-> data, events |-> r.events, raised |-> r.raised,
                closes |-> r.closes]
    /\ window_events' = count_window_events(window_events, r.closes, 1)
    /\ transfers' = track_transfers(transfers, r.closes, 1)

\* one call parser.feed(data), made dt ms after the previous one, while
\* fewer than max calls have been made
Feed(data, dt, max) ==
    /\ nfeeds < max
    /\ Returned(data, feed(Cur, data, now + dt))
    /\ now' = now + dt
    /\ nfeeds' = nfeeds + 1
    /\ UNCHANGED <<coordinator_vars, energy_vars, library_vars>>

---------------------------------------------------------------------------
(* Enumeration: gateways 1 and 2, gateway 1 the one being enumerated       *)

MaxFeedsEnum == 5

LongAddressOf(gw) == <<4, 192, 91, 48, 0, 2, 190, 21 + gw>>

VersionOf(gw) == <<48 + gw>>

EnumStart == encode_frame(To(0), ENUMERATION_START_REQUEST, <<0, 0, 0, 0, 0, 1>>)

\* a start request that is not accepted: not addressed to gateway 0
EnumStartToGateway == encode_frame(To(2), ENUMERATION_START_REQUEST, <<0, 0, 0, 0, 0, 1>>)

EnumResponse(gw) == encode_frame(From(gw), ENUMERATION_RESPONSE, LongAddressOf(gw))

IdentifyResponse(gw) == encode_frame(From(gw), IDENTIFY_RESPONSE, LongAddressOf(gw))

VersionResponse(gw) == encode_frame(From(gw), VERSION_RESPONSE, VersionOf(gw))

EnumEnd == encode_frame(From(1), ENUMERATION_END_RESPONSE, <<>>)

EnumInputs ==
    {EnumStart, EnumStartToGateway, EnumEnd}
    \cup {EnumResponse(gw) : gw \in {1, 2}}
    \cup {IdentifyResponse(gw) : gw \in {1, 2}}
    \cup {VersionResponse(gw) : gw \in {1, 2}}

InitEnum == InitWith(PersistentState_new)

NextEnum == \E data \in EnumInputs : Feed(data, 0, MaxFeedsEnum)

SpecEnum == InitEnum /\ [][NextEnum]_vars

---------------------------------------------------------------------------
(* Commands and node tables: gateways 1 and 2, sequence numbers 1 and 2,   *)
(* nodes 1, 2 and 3                                                        *)

MaxFeedsCmd == 5

NodeLongAddress(n) == <<4, 192, 91, 48, 0, 2, 190, 32 + n>>

\* a COMMAND_REQUEST / COMMAND_RESPONSE payload: three leading bytes, the
\* packet type, the sequence number, the packet's payload
CommandPayload(packet_type, seq, payload) == <<0, 0, 0, packet_type, seq>> \o payload

NodeTableRequest(gw, seq) ==
    encode_frame(To(gw), COMMAND_REQUEST, CommandPayload(NODE_TABLE_REQUEST, seq, <<0, 0>>))

\* a STRING_REQUEST to node n with a one-character text
StringRequest(gw, seq, n, char) ==
    encode_frame(To(gw), COMMAND_REQUEST,
                 CommandPayload(STRING_REQUEST, seq, <<0, n, char>>))

\* the entries of a node-table page: node n with its long address
RECURSIVE PageEntries(_)
PageEntries(nodes) ==
    IF Len(nodes) = 0 THEN <<>>
    ELSE <<0, Head(nodes)>> \o NodeLongAddress(Head(nodes)) \o PageEntries(Tail(nodes))

\* a NODE_TABLE_RESPONSE with the given nodes; none: the terminator
NodeTableResponse(gw, seq, nodes) ==
    encode_frame(From(gw), COMMAND_RESPONSE,
                 CommandPayload(NODE_TABLE_RESPONSE, seq,
                                <<Len(nodes)>> \o PageEntries(nodes)))

\* a NODE_TABLE_RESPONSE announcing two entries and carrying one
NodeTableMalformed(gw, seq) ==
    encode_frame(From(gw), COMMAND_RESPONSE,
                 CommandPayload(NODE_TABLE_RESPONSE, seq, <<2>> \o PageEntries(<<1>>)))

StringResponse(gw, seq) ==
    encode_frame(From(gw), COMMAND_RESPONSE, CommandPayload(STRING_RESPONSE, seq, <<79, 75>>))

\* one read holding a request, a second request with the same sequence
\* number and other contents, and the response
Retransmission ==
    StringRequest(1, 1, 1, 65) \o StringRequest(1, 1, 2, 66) \o StringResponse(1, 1)

CmdInputs ==
    {NodeTableRequest(1, 1), NodeTableRequest(2, 1),
     StringRequest(1, 1, 1, 65), StringRequest(1, 1, 2, 66),
     NodeTableResponse(1, 1, <<1>>), NodeTableResponse(1, 1, <<2>>),
     NodeTableResponse(1, 1, <<>>), NodeTableResponse(1, 2, <<>>),
     NodeTableResponse(2, 1, <<>>), NodeTableMalformed(1, 1),
     StringResponse(1, 1), Retransmission}

\* a PersistentState restored with a node table of gateway 1 holding node 3
PersistentState_stored ==
    [gateway_identities |-> EmptyDict,
     gateway_versions |-> EmptyDict,
     gateway_node_tables |-> DictPut(EmptyDict, 1, DictPut(EmptyDict, 3, NodeLongAddress(3))),
     node_table_order |-> <<1>>]

InitCmd == \E ps \in {PersistentState_new, PersistentState_stored} : InitWith(ps)

NextCmd == \E data \in CmdInputs : Feed(data, 0, MaxFeedsCmd)

SpecCmd == InitCmd /\ [][NextCmd]_vars

---------------------------------------------------------------------------
(* Paginated node-table transfers of gateways 1 and 2, each read holding a *)
(* request and its response                                                *)

MaxFeedsTable == 5

\* a NODE_TABLE pair with the given nodes; none: the terminator
TablePage(gw, nodes) == NodeTableRequest(gw, 1) \o NodeTableResponse(gw, 1, nodes)

TableInputs ==
    {TablePage(1, <<1>>), TablePage(1, <<2>>), TablePage(1, <<>>),
     TablePage(2, <<1, 3>>), TablePage(2, <<>>),
     NodeTableRequest(1, 1) \o NodeTableMalformed(1, 1)}

InitTable == InitWith(PersistentState_new)

NextTable == \E data \in TableInputs : Feed(data, 0, MaxFeedsTable)

SpecTable == InitTable /\ [][NextTable]_vars

---------------------------------------------------------------------------
(* A node-table transfer during an enumeration                             *)

MaxFeedsWindow == 6

WindowInputs ==
    {EnumStart, IdentifyResponse(2), EnumEnd,
     NodeTableRequest(1, 1), NodeTableResponse(1, 1, <<1>>),
     NodeTableResponse(1, 1, <<>>)}

InitWindow == InitWith(PersistentState_new)

NextWindow == \E data \in WindowInputs : Feed(data, 0, MaxFeedsWindow)

SpecWindow == InitWindow /\ [][NextWindow]_vars

---------------------------------------------------------------------------
(* Receive requests and responses of gateway 1                             *)

MaxFeedsRecv == 3

\* the time between two reads, in ms
Delays == {0, 5000}

\* a RECEIVE_REQUEST carrying a packet number
ReceiveRequest(gw, packet_number) ==
    encode_frame(To(gw), RECEIVE_REQUEST,
                 <<0, 0, packet_number \div 256, packet_number % 256, 0>>)

\* a RECEIVE_RESPONSE with status type 00FF (no optional field, one-byte
\* packet number), the slot counter and the received packets
ReceiveResponse(gw, packet_number_lo, slot_counter, received) ==
    encode_frame(From(gw), RECEIVE_RESPONSE,
                 <<0, 255, packet_number_lo, slot_counter \div 256, slot_counter % 256>>
                 \o received)

\* a received packet: the 7-byte header and the data
ReceivedPacket(packet_type, node_address, data) ==
    <<packet_type, node_address \div 256, node_address % 256, 0, 0, 0, Len(data)>> \o data

\* the 13 bytes of a power report: voltages 800 and 400, duty cycle 128,
\* current 500, temperature 411, the slot counter, rssi 128
PowerReportBytes(slot_counter) ==
    <<50, 1, 144, 128, 31, 65, 155, 0, 0, 0,
      slot_counter \div 256, slot_counter % 256, 128>>

\* slot counters: epoch 1 slot 0; epoch 3 slot 11999, the last of the table;
\* epoch 3 slot 12000, the first past it; epoch 3 slot 16383
SlotCounters == {16384, 61151, 61152, 65535}

RecvInputs ==
    {ReceiveRequest(1, 0)}
    \cup {ReceiveResponse(1, 1, sc, <<>>) : sc \in SlotCounters}
    \cup {ReceiveResponse(1, 2, 16384,
                          ReceivedPacket(POWER_REPORT, 16, PowerReportBytes(16384))),
          ReceiveResponse(1, 2, 16384, ReceivedPacket(STRING_RESPONSE, 16, <<79, 75>>)),
          ReceiveResponse(1, 2, 16384, ReceivedPacket(TOPOLOGY_REPORT, 16, <<1, 2>>))}

InitRecv == InitWith(PersistentState_new)

NextRecv == \E data \in RecvInputs, dt \in Delays : Feed(data, dt, MaxFeedsRecv)

SpecRecv == InitRecv /\ [][NextRecv]_vars

---------------------------------------------------------------------------
(* Power reports of gateways 1 and 2 with stored node tables: node 16 is   *)
(* in the table of gateway 1, node 17 in that of gateway 2, and node 18 is *)
(* in a page of gateway 1 that no terminator has finalised                 *)

MaxFeedsPower == 4

\* a PersistentState restored with the node tables of gateways 1 and 2
PersistentState_tables ==
    [gateway_identities |-> EmptyDict,
     gateway_versions |-> EmptyDict,
     gateway_node_tables |->
         DictPut(DictPut(EmptyDict, 1, DictPut(EmptyDict, 16, NodeLongAddress(16))),
                 2, DictPut(EmptyDict, 17, NodeLongAddress(17))),
     node_table_order |-> <<1, 2>>]

\* a RECEIVE_RESPONSE of gateway gw carrying one power report of node n
PowerResponse(gw, n) ==
    ReceiveResponse(gw, 1, 16384, ReceivedPacket(POWER_REPORT, n, PowerReportBytes(16384)))

PowerInputs ==
    {ReceiveRequest(1, 0), ReceiveRequest(2, 0), TablePage(1, <<18>>)}
    \cup {PowerResponse(1, n) : n \in {16, 17, 18}}
    \cup {PowerResponse(2, 17),
          ReceiveResponse(1, 1, 16384, ReceivedPacket(STRING_RESPONSE, 16, <<79, 75>>))}

InitPower == InitWith(PersistentState_tables)

NextPower == \E data \in PowerInputs : Feed(data, 0, MaxFeedsPower)

SpecPower == InitPower /\ [][NextPower]_vars

---------------------------------------------------------------------------
(* The frame extractor: reads of delimiters, contents and noise            *)

MaxFeedsFrame == 5

\* a VERSION_RESPONSE of gateway 2, which is announced when it is dispatched
GoodContent == frame_content(From(2), VERSION_RESPONSE, <<49>>)

\* the same with the high byte of the CRC changed
BadCrcContent == [GoodContent EXCEPT ![Len(GoodContent)] = (@ + 1) % 256]

\* five bytes, the last two the CRC of the first three
RuntContent ==
    with_crc(<<128, 2, 0>>)

\* whole frames; and a frame in pieces, the escape byte and the code of a
\* delimiter in separate reads; and a byte of noise
FrameInputs ==
    {wire(GoodContent), wire(BadCrcContent), wire(RuntContent),
     <<126, 7>>, escape(GoodContent), escape(BadCrcContent), <<126>>, <<8>>, <<65>>}

InitFrame == InitWith(PersistentState_new)

NextFrame == \E data \in FrameInputs : Feed(data, 0, MaxFeedsFrame)

SpecFrame == InitFrame /\ [][NextFrame]_vars

---------------------------------------------------------------------------
(* Energy accumulation: one accumulator and the samples given to it.  The  *)
(* first sample is taken two minutes before midnight; a later one follows   *)
(* the last reading by one of the delays, the clock stepping back included *)

MaxSamples == 3

SamplePowers == {-5, 0, 1, 2, 100}

SampleDelays == {-30, 0, 60, 120, 121, 86400}

FirstSampleTime == 2 * SecondsPerDay - 120

\* the accumulator and the observations after accumulate_energy came back
\* with r for the sample (power, t)
Sampled(power, t, r) ==
    /\ accumulator' = r.acc
    /\ sample' = [pre |-> Some(accumulator), power |-> Some(power),
                  now |-> Some(t), result |-> Some(r.result)]
    /\ samples_today' = IF accumulator.daily_reset_date # Some(date(t)) THEN 1
                        ELSE samples_today + 1
    /\ nsamples' = nsamples + 1

\* one call accumulate_energy(accumulator, power, t) with the default
\* thresholds, while fewer than MaxSamples calls have been made
Accumulate(power, t) ==
    /\ nsamples < MaxSamples
    /\ Sampled(power, t,
                   accumulate_energy(accumulator, power, t,
                                     ENERGY_GAP_THRESHOLD_SECONDS,
                                     ENERGY_LOW_POWER_THRESHOLD_W))
    /\ UNCHANGED <<parser_vars, coordinator_vars, library_vars>>

InitEnergy ==
    /\ InitParser(PersistentState_new)
    /\ InitCoordinator({})
    /\ \E d \in {None, Some(date(FirstSampleTime))} : InitAccumulator(d)
    /\ InitLibrary

NextEnergy ==
    \E power \in SamplePowers, dt \in SampleDelays :
        Accumulate(power,
                   IF accumulator.last_reading_ts = None THEN FirstSampleTime
                   ELSE accumulator.last_reading_ts[1] + dt)

SpecEnergy == InitEnergy /\ [][NextEnergy]_vars

---------------------------------------------------------------------------
(* The coordinator: its listener is started and stopped, the reader thread *)
(* runs _listen, the debounce timer fires, and events are handed to        *)
(* _process_event.  Barcode A is the one a configured entry lists; node    *)
(* 99 and barcode S are known to the store only.                           *)

MaxEvents == 3

Barcodes == {"A", "S", "X"}

PowerReportEvents ==
    {[event_type |-> "power_report", gateway_id |-> 1, node_id |-> n,
      barcode |-> b, power |-> 50] :
        n \in {10, 15}, b \in {None, Some("A"), Some("X")}}

Gateway1 == DictPut(EmptyDict, 1, [address |-> None, version |-> Some("1")])

NodeItem(n, b) == [node_id |-> n, barcode |-> b]

\* node tables: none, with and without gateways; A on node 10; A moved to
\* node 15 and X on node 10; a node without a barcode; X on two nodes
InfrastructureEventsIn ==
    {[event_type |-> "infrastructure", gateways |-> g, nodes |-> <<>>] :
        g \in {EmptyDict, Gateway1}}
    \cup
    {[event_type |-> "infrastructure", gateways |-> Gateway1, nodes |-> t] :
        t \in {<<NodeItem(10, Some("A"))>>,
               <<NodeItem(15, Some("A")), NodeItem(10, Some("X"))>>,
               <<NodeItem(10, None)>>,
               <<NodeItem(10, Some("X")), NodeItem(15, Some("X"))>>}}

OtherEvents ==
    {[event_type |-> "topology", gateway_id |-> 1, node_id |-> 10],
     [event_type |-> "string", gateway_id |-> 1, node_id |-> 10]}

CoordinatorEvents == PowerReportEvents \cup InfrastructureEventsIn \cup OtherEvents

\* what the store holds: nothing; the mappings and the discovered barcode
\* of an earlier run; the same with the energy of barcode A
StoredMappings ==
    [barcode_to_node |-> DictPut(DictPut(EmptyDict, "A", 10), "S", 99),
     discovered_barcodes |-> {"S"},
     energy_data |-> EmptyDict]

StoredStates ==
    {None,
     Some(StoredMappings),
     Some([StoredMappings EXCEPT
              !.energy_data =
                  DictPut(EmptyDict, "A",
                          [daily_energy_wh |-> 0, total_energy_wh |-> 7200,
                           daily_reset_date |-> Some(0), last_power_w |-> 0,
                           last_reading_ts |-> None, readings_today |-> 0])])}

\* the coordinator and the observations after _process_event(event), called
\* when dt_util.now() is t, came back with r
Handled(event, t, r) ==
    /\ InstallCoordinator(r.c)
    /\ handled' = [event |-> Some(event), pre |-> Some(Coordinator),
                   post |-> Some(r.c), now |-> Some(t),
                   result |-> r.result, raised |-> r.raised]
    /\ wall' = t
    /\ nevents' = nevents + 1

\* one call _process_event(event), a minute after the previous one, while
\* fewer than MaxEvents calls have been made
ProcessEvent(event) ==
    /\ nevents < MaxEvents
    /\ Handled(event, wall + 60, process_event(Coordinator, event, wall + 60))
    /\ UNCHANGED <<stop_event, source, listener, starter, stopper>>
    /\ UNCHANGED <<loop_timers, scheduled_at>>
    /\ UNCHANGED <<parser_vars, energy_vars, library_vars>>

\* async_start_listener came back from _async_load_coordinator_state with r:
\* when that raised nothing else is done, otherwise the stop signal is
\* cleared and the task that runs _listen is created
Started(r) ==
    /\ InstallCoordinator(r.c)
    /\ starter' = IF r.raised THEN "raised" ELSE "returned"
    /\ listener' = IF r.raised THEN listener ELSE "running"
    /\ stop_event' = (r.raised /\ stop_event)

\* PyTapDataUpdateCoordinator.async_start_listener
StartListener(stored) ==
    /\ starter = "not called"
    /\ Started(load_coordinator_state(Coordinator, stored, wall))
    /\ UNCHANGED <<source, stopper, wall, nevents, handled>>
    /\ UNCHANGED <<loop_timers, scheduled_at>>
    /\ UNCHANGED <<parser_vars, energy_vars, library_vars>>

\* _listen from the head of its loop: it returns when the stop signal is
\* set; otherwise it calls create_parser(persistent_state=...), a TypeError
\* when pytap.api.create_parser has no such parameter, raised outside the
\* try statement: the thread ends before a source is opened
Listen ==
    /\ listener = "running"
    /\ listener' = IF stop_event THEN "returned"
                   ELSE IF "persistent_state" \notin create_parser_parameters
                   THEN "raised"
                   ELSE "connecting"
    /\ UNCHANGED <<configured_barcodes, barcode_to_node, node_to_barcode,
                   infra_received, discovered_barcodes, pending_power_reports,
                   unsaved_changes, save_task, energy_state, coordinator_data,
                   stop_event, source, starter, stopper, wall, nevents, handled>>
    /\ UNCHANGED <<loop_timers, scheduled_at>>
    /\ UNCHANGED <<parser_vars, energy_vars, library_vars>>

\* the debounce timer fires: _async_save_coordinator_state runs in a task
\* of its own
Saved(r) ==
    InstallCoordinator([r.c EXCEPT !.save_task = FALSE])

SaveTimer ==
    /\ save_task
    /\ Saved(save_coordinator_state(Coordinator))
    /\ UNCHANGED <<stop_event, source, listener, starter, stopper, wall,
                   nevents, handled>>
    /\ UNCHANGED <<loop_timers, scheduled_at>>
    /\ UNCHANGED <<parser_vars, energy_vars, library_vars>>

\* async_stop_listener after the stop signal is set and the timer
\* cancelled, r being what the flush of unsaved changes came back with
Flushed(r) ==
    /\ InstallCoordinator([r.c EXCEPT !.save_task = FALSE])
    /\ stopper' = IF r.raised THEN "raised" ELSE "signalled"

\* async_stop_listener down to the flush: the stop signal, the timer, and
\* the save of unsaved changes, whose exception leaves async_stop_listener
StopSignal ==
    /\ stopper = "not called"
    /\ stop_event' = TRUE
    /\ Flushed(IF unsaved_changes THEN save_coordinator_state(Coordinator)
               ELSE Returns(Coordinator, FALSE))
    /\ UNCHANGED <<source, listener, starter, wall, nevents, handled>>
    /\ UNCHANGED <<loop_timers, scheduled_at>>
    /\ UNCHANGED <<parser_vars, energy_vars, library_vars>>

\* async_stop_listener from the source lock on: the source, when one is
\* installed, is closed, and the task is cancelled and awaited
StopClose ==
    /\ stopper = "signalled"
    /\ stopper' = "returned"
    /\ source' = IF source # None THEN Some("closed") ELSE source
    /\ UNCHANGED <<configured_barcodes, barcode_to_node, node_to_barcode,
                   infra_received, discovered_barcodes, pending_power_reports,
                   unsaved_changes, save_task, energy_state, coordinator_data,
                   stop_event, listener, starter, wall, nevents, handled>>
    /\ UNCHANGED <<loop_timers, scheduled_at>>
    /\ UNCHANGED <<parser_vars, energy_vars, library_vars>>

InitCoord ==
    /\ InitParser(PersistentState_new)
    /\ \E configured \in {{}, {"A"}} : InitCoordinator(configured)
    /\ InitAccumulator(None)
    /\ InitLibrary

NextCoord ==
    \/ \E event \in CoordinatorEvents : ProcessEvent(event)
    \/ \E stored \in StoredStates : StartListener(stored)
    \/ Listen
    \/ SaveTimer
    \/ StopSignal
    \/ StopClose

SpecCoord == InitCoord /\ [][NextCoord]_vars

---------------------------------------------------------------------------
(* pytap.api.observe: connections that fail, open and break, or deliver    *)
(* reads, under reconnect_retries 0, 1 and 2.  A read that times out       *)
(* within reconnect_timeout changes nothing and is no step.                *)

MaxAttempts == 5

MaxFeedsObserve == 2

\* reads: a frame that is announced, a byte of noise, and a receive pair
\* whose slot counter makes feed raise
ObserveInputs ==
    {VersionResponse(2), <<65>>,
     ReceiveRequest(1, 0) \o ReceiveResponse(1, 1, 61152, <<>>)}

\* connect(source_config) returns a source (ok) or raises
Connect(ok) ==
    /\ observer.pc = "connect"
    /\ observer.attempts < MaxAttempts
    /\ observer' = IF ok THEN observe_connected(observer)
                   ELSE observe_connect_failed(observer)
    /\ UNCHANGED <<reset_call, loaded, clock>>
    /\ UNCHANGED <<parser_vars, coordinator_vars, energy_vars>>

\* the read loop after source.read returned data and parser.feed(data) came
\* back with r: the events go to the callback, an exception of feed is
\* caught by the outer loop
ReadReturned(data, r) ==
    /\ Returned(data, r)
    /\ observer' = IF r.raised THEN observe_retry(observe_read(observer))
                   ELSE observe_read(observer)

\* source.read(1024) returns data
Read(data) ==
    /\ observer.pc = "read"
    /\ nfeeds < MaxFeedsObserve
    /\ ReadReturned(data, feed(Cur, data, now))
    /\ nfeeds' = nfeeds + 1
    /\ UNCHANGED <<now, reset_call, loaded, clock>>
    /\ UNCHANGED <<coordinator_vars, energy_vars>>

\* source.read raises, or returns nothing for longer than reconnect_timeout
ReadFails ==
    /\ observer.pc = "read"
    /\ observer' = observe_retry(observer)
    /\ UNCHANGED <<reset_call, loaded, clock>>
    /\ UNCHANGED <<parser_vars, coordinator_vars, energy_vars>>

InitObserve ==
    /\ InitParser(PersistentState_new)
    /\ InitCoordinator({})
    /\ InitAccumulator(None)
    /\ reset_call = None
    /\ loaded = None
    /\ clock = None
    /\ \E reconnect_retries \in {0, 1, 2} : observer = observe_new(reconnect_retries)

NextObserve ==
    \/ \E ok \in BOOLEAN : Connect(ok)
    \/ \E data \in ObserveInputs : Read(data)
    \/ ReadFails

SpecObserve == InitObserve /\ [][NextObserve]_vars

---------------------------------------------------------------------------
(* Parser.reset between reads: whole frames that fill every part of the    *)
(* parser, the two halves of a frame, and a frame that is left open        *)

MaxFeedsReset == 4

\* a frame that has begun and holds two bytes
OpenFrame == <<126, 7, 18, 1>>

FirstHalf == SubSeq(VersionResponse(2), 1, 6)

SecondHalf == SubSeq(VersionResponse(2), 7, Len(VersionResponse(2)))

ResetInputs ==
    {EnumStart, VersionResponse(1), NodeTableRequest(1, 1),
     NodeTableRequest(1, 1) \o NodeTableResponse(1, 1, <<2>>),
     ReceiveRequest(1, 0) \o ReceiveResponse(1, 1, 61152, <<>>),
     OpenFrame, FirstHalf, SecondHalf, VersionResponse(2)}

\* one call parser.reset()
Reset ==
    /\ nfeeds < MaxFeedsReset
    /\ reset_call' = Some([pre |-> Cur, at |-> nfeeds])
    /\ Install(reset(Cur))
    /\ UNCHANGED <<now, nfeeds, last, window_events, transfers>>
    /\ UNCHANGED <<coordinator_vars, energy_vars, observer, loaded, clock>>

InitReset == InitWith(PersistentState_new)

NextReset ==
    \/ \E data \in ResetInputs : Feed(data, 0, MaxFeedsReset)
    \/ Reset

SpecReset == InitReset /\ [][NextReset]_vars

---------------------------------------------------------------------------
(* A SlotClock that is constructed and then set, the capture time of each  *)
(* call following the last one by 5 ms for every slot the counter moved    *)
(* on.  The counters are the first, the last and two neighbouring slots of *)
(* each epoch.                                                             *)

MaxSets == 2

ClockStart == 1000000

SlotCounterOf(epoch, slot_number) == epoch * 16384 + slot_number

ClockCounters ==
    {SlotCounterOf(epoch, slot_number) :
        epoch \in 0..3, slot_number \in {0, 999, 1000, MAX_SLOT_NUMBER}}

\* SlotClock(sc, ClockStart)
InitClock ==
    /\ InitParser(PersistentState_new)
    /\ InitCoordinator({})
    /\ InitAccumulator(None)
    /\ reset_call = None
    /\ observer = None
    /\ loaded = None
    /\ \E sc \in ClockCounters :
           clock = Some([c |-> SlotClock_initialize(sc, ClockStart).clock[1],
                         sc |-> sc, nsets |-> 0])

\* clock.set(sc, time), the counter having moved on to sc
SetClock(sc) ==
    /\ clock[1].nsets < MaxSets
    /\ SlotCounter_slots_since(sc, clock[1].sc) >= 0
    /\ clock' =
          Some([c |-> SlotClock_set(
                          clock[1].c, sc,
                          clock[1].c.last_time
                            + 5 * SlotCounter_slots_since(sc, clock[1].sc)).clock[1],
                sc |-> sc, nsets |-> clock[1].nsets + 1])
    /\ UNCHANGED <<parser_vars, coordinator_vars, energy_vars, reset_call, observer, loaded>>

NextClock == \E sc \in ClockCounters : SetClock(sc)

SpecClock == InitClock /\ [][NextClock]_vars

---------------------------------------------------------------------------
(* The infrastructure of two gateways that number their nodes alike: each  *)
(* gateway reports a node 1, and the two nodes have different addresses    *)

MaxFeedsInfra == 5

\* the long address of node n of gateway gw
NodeLongAddressAt(gw, n) == <<4, 192, 91, 48, 0, gw, 190, 32 + n>>

\* a NODE_TABLE pair of gateway gw with its node n
OwnPage(gw, n) ==
    NodeTableRequest(gw, 1)
      \o encode_frame(From(gw), COMMAND_RESPONSE,
                      CommandPayload(NODE_TABLE_RESPONSE, 1,
                                     <<1, 0, n>> \o NodeLongAddressAt(gw, n)))

InfraInputs ==
    {VersionResponse(1), IdentifyResponse(2),
     OwnPage(1, 1), OwnPage(2, 1), TablePage(1, <<>>), TablePage(2, <<>>)}

InitInfra == InitWith(PersistentState_new)

NextInfra == \E data \in InfraInputs : Feed(data, 0, MaxFeedsInfra)

SpecInfra == InitInfra /\ [][NextInfra]_vars

---------------------------------------------------------------------------
(* Node-table transfers of gateway 1 with malformed responses between the  *)
(* pages, in reads of their own and within one read                        *)

MaxFeedsMalformed == 4

MalformedPair == NodeTableRequest(1, 1) \o NodeTableMalformed(1, 1)

MalformedInputs ==
    {TablePage(1, <<1>>), TablePage(1, <<2>>), TablePage(1, <<>>), MalformedPair,
     TablePage(2, <<3>>),
     TablePage(1, <<1>>) \o MalformedPair \o TablePage(1, <<>>),
     MalformedPair \o TablePage(1, <<2>>) \o TablePage(1, <<>>)}

InitMalformed == InitWith(PersistentState_new)

NextMalformed == \E data \in MalformedInputs : Feed(data, 0, MaxFeedsMalformed)

SpecMalformed == InitMalformed /\ [][NextMalformed]_vars

---------------------------------------------------------------------------
(* PersistentState.load on stored documents: files that cannot be opened   *)
(* or parsed, and objects whose sections hold up to MaxEntries entries     *)
(* with the keys "1", "2" and "x" and with values that are an address, a   *)
(* string of one byte, or a number                                         *)

MaxEntries == 2

KeyOne == <<49>>

KeyTwo == <<50>>

KeyNoNumber == <<120>>

AddressValue(n) == [type |-> "str", text |-> LongAddress_str(NodeLongAddress(n))]

OneByteValue == [type |-> "str", text |-> <<0, 4>>]

NumberValue == [type |-> "int", text |-> <<>>]

VersionValue == [type |-> "str", text |-> VersionOf(1)]

\* the lists of up to MaxEntries entries with different keys
EntryLists(entries) ==
    {l \in UNION {[1..n -> entries] : n \in 0..MaxEntries} :
        \A i \in 1..Len(l), j \in 1..Len(l) : i # j => l[i].key # l[j].key}

IdentityEntries ==
    {[key |-> k, value |-> v] :
        k \in {KeyOne, KeyTwo, KeyNoNumber},
        v \in {AddressValue(1), OneByteValue, NumberValue}}

VersionEntries == {[key |-> k, value |-> VersionValue] : k \in {KeyOne, KeyNoNumber}}

NodeEntries ==
    {[key |-> k, value |-> v] :
        k \in {KeyOne, KeyNoNumber}, v \in {AddressValue(1), OneByteValue}}

TableLists ==
    {<<>>,
     <<[key |-> KeyOne, nodes |-> <<[key |-> KeyOne, value |-> AddressValue(1)]>>]>>,
     <<[key |-> KeyNoNumber, nodes |-> <<[key |-> KeyOne, value |-> AddressValue(1)]>>]>>,
     <<[key |-> KeyOne, nodes |-> <<[key |-> KeyOne, value |-> AddressValue(1)],
                                    [key |-> KeyTwo, value |-> NumberValue]>>]>>,
     <<[key |-> KeyOne, nodes |-> <<[key |-> KeyOne, value |-> AddressValue(1)]>>],
       [key |-> KeyTwo, nodes |-> <<[key |-> KeyNoNumber, value |-> AddressValue(2)]>>]>>}

NoSections ==
    [gateway_identities |-> <<>>, gateway_versions |-> <<>>, gateway_node_tables |-> <<>>]

Documents ==
    {[kind |-> k, sections |-> NoSections] : k \in {"missing", "denied", "garbled", "array"}}
      \cup {[kind |-> "object",
              sections |-> [gateway_identities |-> ids, gateway_versions |-> vers,
                            gateway_node_tables |-> tables]] :
               ids \in EntryLists(IdentityEntries),
               vers \in EntryLists(VersionEntries),
               tables \in TableLists}

InitLoad ==
    /\ InitParser(PersistentState_new)
    /\ InitCoordinator({})
    /\ InitAccumulator(None)
    /\ reset_call = None
    /\ observer = None
    /\ clock = None
    /\ \E doc \in Documents : loaded = Some([doc |-> doc, outcome |-> None])

\* PersistentState.load(path), the file at path holding the document
Load ==
    /\ loaded[1].outcome = None
    /\ loaded' = Some([loaded[1] EXCEPT !.outcome = Some(PersistentState_load(loaded[1].doc))])
    /\ UNCHANGED <<parser_vars, coordinator_vars, energy_vars, reset_call, observer, clock>>

NextLoad == Load

SpecLoad == InitLoad /\ [][NextLoad]_vars

---------------------------------------------------------------------------
(* Escapes inside a frame: reads of one delimiter, one escape or one byte, *)
(* and reads in which a frame that was begun is restarted or dropped       *)
(* before a whole frame follows.  The bytes of a frame that is dropped are *)
(* 238, which the whole frame does not hold.                               *)

MaxFeedsEscape == 4

Dropped == 238

\* a frame is begun, then restarted, and the restarted frame is completed
RestartedFrame == <<126, 7, Dropped, Dropped>> \o wire(GoodContent)

\* a frame is begun and dropped by an escape that is not in the table, then
\* a whole frame follows
DroppedThenFrame == <<126, 7, Dropped, 126, 9>> \o wire(GoodContent)

EscapeInputs ==
    {<<126, 7>>, <<126, 8>>, <<126, 7, 66>>, <<65>>, <<Dropped>>,
     <<126, 9>>, <<126, 126>>, RestartedFrame, DroppedThenFrame}
      \cup {<<126, k>> : k \in 0..6}

InitEscape == InitWith(PersistentState_new)

NextEscape == \E data \in EscapeInputs : Feed(data, 0, MaxFeedsEscape)

SpecEscape == InitEscape /\ [][NextEscape]_vars

---------------------------------------------------------------------------
(* Oversize frames: a frame is begun and filled in blocks of 128 bytes,    *)
(* single bytes and escapes up to and past MAX_FRAME_SIZE; whole frames of *)
(* 256 and of 257 content bytes with a valid CRC                           *)

MaxFeedsGiant == 6

BlockSize == 128

Block == [i \in 1..BlockSize |-> 65]

\* a PING_REQUEST frame content of n bytes with a valid CRC
ContentOfSize(n) == frame_content(To(1), PING_REQUEST, [i \in 1..(n - 6) |-> 65])

LargestFrame == wire(ContentOfSize(MAX_FRAME_SIZE))

OversizeFrame == wire(ContentOfSize(MAX_FRAME_SIZE + 1))

GiantInputs ==
    {<<126, 7>>, Block, <<65>>, <<126, 0>>, <<126, 8>>, <<126, 9>>,
     LargestFrame, OversizeFrame}

InitGiant == InitWith(PersistentState_new)

NextGiant == \E data \in GiantInputs : Feed(data, 0, MaxFeedsGiant)

SpecGiant == InitGiant /\ [][NextGiant]_vars

---------------------------------------------------------------------------
(* Resynchronisation: reads that leave the extractor in each of its seven  *)
(* states, then whole frames, one or two to a read                         *)

MaxFeedsResync == 4

\* a frame is begun and filled past MAX_FRAME_SIZE
Overfill == <<126, 7>> \o Block \o Block \o <<65>>

\* a VERSION_RESPONSE of gateway 1 whose text holds the bytes 7E and 24,
\* which are escaped on the wire
EscapedContent == frame_content(From(1), VERSION_RESPONSE, <<126, 36>>)

WholeFrames == {wire(GoodContent), wire(EscapedContent), LargestFrame}

TwoFrames ==
    {wire(EscapedContent) \o wire(GoodContent), LargestFrame \o wire(EscapedContent)}

\* the content of the last frame of a read of WholeFrames or TwoFrames
LastContent(data) ==
    IF data \in {wire(GoodContent), wire(EscapedContent) \o wire(GoodContent)}
    THEN GoodContent
    ELSE IF data = LargestFrame THEN ContentOfSize(MAX_FRAME_SIZE)
    ELSE EscapedContent

ResyncInputs ==
    {<<126>>, <<126, 7>>, <<65>>, <<0>>, Overfill} \cup WholeFrames \cup TwoFrames

InitResync == InitWith(PersistentState_new)

NextResync == \E data \in ResyncInputs : Feed(data, 0, MaxFeedsResync)

SpecResync == InitResync /\ [][NextResync]_vars

---------------------------------------------------------------------------
(* Packet numbers: receive requests of gateways 1 and 2 and responses with *)
(* the packet number in two bytes (status type 00EF, and 00E0 with every   *)
(* auxiliary field present) and in one byte (status type 00FF)             *)

MaxFeedsNumber == 4

\* a RECEIVE_RESPONSE with status type 00EF: no auxiliary field, two-byte
\* packet number, slot counter of epoch 1 slot 0
ReceiveResponseFull(gw, packet_number) ==
    encode_frame(From(gw), RECEIVE_RESPONSE,
                 <<0, 239, packet_number \div 256, packet_number % 256, 64, 0>>)

\* the same with status type 00E0: six bytes of auxiliary fields first
ReceiveResponseAux(gw, packet_number) ==
    encode_frame(From(gw), RECEIVE_RESPONSE,
                 <<0, 224, 1, 2, 3, 4, 5, 6,
                   packet_number \div 256, packet_number % 256, 64, 0>>)

NumberInputs ==
    {ReceiveRequest(1, pn) : pn \in {0, 510, 65535}}
    \cup {ReceiveRequest(2, 255)}
    \cup {ReceiveResponse(1, lo, 16384, <<>>) : lo \in {0, 1, 254, 255}}
    \cup {ReceiveResponse(2, 0, 16384, <<>>)}
    \cup {ReceiveResponseFull(1, 65535), ReceiveResponseFull(1, 384),
          ReceiveResponseAux(1, 511)}

InitNumber == InitWith(PersistentState_new)

NextNumber == \E data \in NumberInputs : Feed(data, 0, MaxFeedsNumber)

SpecNumber == InitNumber /\ [][NextNumber]_vars

---------------------------------------------------------------------------
(* Truncated receive responses: payloads that end inside the status type,  *)
(* the auxiliary fields, the packet number or the slot counter, between    *)
(* receive requests and whole responses                                    *)

MaxFeedsTruncated == 4

TruncatedPayloads ==
    {<<>>, <<0, 255, 5>>, <<0, 255, 5, 64>>, <<0, 239, 1, 2>>, <<0, 239, 1, 2, 64>>,
     <<0, 224, 1, 2>>, <<0, 224, 1, 2, 3, 4, 5, 6>>, <<0, 224, 1, 2, 3, 4, 5, 6, 7>>,
     <<0, 224, 1, 2, 3, 4, 5, 6, 7, 8, 64>>}

TruncatedResponse(gw, payload) == encode_frame(From(gw), RECEIVE_RESPONSE, payload)

TruncatedInputs ==
    {ReceiveRequest(1, 510), ReceiveRequest(2, 255),
     ReceiveResponse(1, 1, 16384, <<>>), ReceiveResponseFull(1, 384),
     TruncatedResponse(2, <<0, 239, 1, 2>>),
     TruncatedResponse(1, <<0, 239, 1, 2, 64>>) \o ReceiveResponse(1, 1, 16384, <<>>)}
    \cup {TruncatedResponse(1, payload) : payload \in TruncatedPayloads}

InitTruncated == InitWith(PersistentState_new)

NextTruncated ==
    \E data \in TruncatedInputs, dt \in Delays : Feed(data, dt, MaxFeedsTruncated)

SpecTruncated == InitTruncated /\ [][NextTruncated]_vars

---------------------------------------------------------------------------
(* Decoding of embedded packets: receive requests of gateways 1 and 2,     *)
(* responses with and without packets, with a slot counter the slot clock  *)
(* takes and one it does not                                               *)

MaxFeedsDecode == 4

DecodeInputs ==
    {ReceiveRequest(1, 0), ReceiveRequest(2, 0),
     ReceiveResponse(1, 1, 16384, <<>>), ReceiveResponse(1, 1, 61152, <<>>),
     ReceiveResponse(1, 2, 16384,
                     ReceivedPacket(POWER_REPORT, 16, PowerReportBytes(16384))),
     ReceiveResponse(2, 2, 16384,
                     ReceivedPacket(POWER_REPORT, 16, PowerReportBytes(16384))),
     ReceiveResponse(1, 2, 16384, ReceivedPacket(STRING_RESPONSE, 16, <<79, 75>>)),
     ReceiveResponse(2, 2, 61152, ReceivedPacket(STRING_RESPONSE, 16, <<79, 75>>)),
     ReceiveRequest(1, 0)
         \o ReceiveResponse(1, 2, 16384, ReceivedPacket(STRING_RESPONSE, 16, <<79, 75>>))
         \o ReceiveResponse(1, 3, 16384, ReceivedPacket(STRING_RESPONSE, 16, <<79, 75>>))}

InitDecode == InitWith(PersistentState_new)

NextDecode == \E data \in DecodeInputs, dt \in Delays : Feed(data, dt, MaxFeedsDecode)

SpecDecode == InitDecode /\ [][NextDecode]_vars

---------------------------------------------------------------------------
(* Pairing of commands: requests of two types and two sequence numbers,    *)
(* responses of the pairing type, of the other type and of a type that     *)
(* pairs with no request, once and twice                                   *)

MaxFeedsPair == 4

\* a COMMAND_RESPONSE whose packet type is that of a power report
OtherResponse(gw, seq) ==
    encode_frame(From(gw), COMMAND_RESPONSE, CommandPayload(POWER_REPORT, seq, <<79, 75>>))

PairInputs ==
    {NodeTableRequest(1, 1), NodeTableRequest(2, 1),
     StringRequest(1, 1, 1, 65), StringRequest(1, 2, 1, 66),
     NodeTableResponse(1, 1, <<1>>), NodeTableResponse(1, 1, <<>>),
     NodeTableResponse(1, 2, <<>>),
     StringResponse(1, 1), StringResponse(1, 2), StringResponse(2, 1),
     OtherResponse(1, 1),
     StringRequest(1, 1, 1, 65) \o StringResponse(1, 1) \o StringResponse(1, 1),
     NodeTableRequest(1, 1) \o StringResponse(1, 1) \o NodeTableResponse(1, 1, <<>>)}

InitPair == InitWith(PersistentState_new)

NextPair == \E data \in PairInputs : Feed(data, 0, MaxFeedsPair)

SpecPair == InitPair /\ [][NextPair]_vars

---------------------------------------------------------------------------
(* Counters: single bytes, so that every transition of the extractor is a  *)
(* step, after reads that leave a frame open with good, damaged, short and *)
(* 256 bytes of content, and whole frames three to a read                  *)

MaxFeedsCount == 5

\* a frame begun and not closed
Unclosed(content) == <<126, 7>> \o escape(content)

\* the content of a RECEIVE_RESPONSE with the slot counter of epoch 3 slot
\* 12000
ClocklessContent == frame_content(From(1), RECEIVE_RESPONSE, <<0, 255, 1, 238, 224>>)

SingleBytes == {<<0>>, <<7>>, <<8>>, <<65>>, <<126>>}

CountInputs ==
    SingleBytes
    \cup {Unclosed(GoodContent), Unclosed(BadCrcContent), Unclosed(RuntContent),
          <<126, 7>> \o Block \o Block,
          ReceiveRequest(1, 0) \o Unclosed(ClocklessContent),
          wire(GoodContent) \o wire(RuntContent) \o wire(BadCrcContent)}

InitCount == InitWith(PersistentState_new)

NextCount == \E data \in CountInputs : Feed(data, 0, MaxFeedsCount)

SpecCount == InitCount /\ [][NextCount]_vars

---------------------------------------------------------------------------
(* Debounced persistence: _process_event calls 3, 10 and 12 seconds apart, *)
(* the save timers of the event loop with their due times, and             *)
(* async_stop_listener.  A timer that is due fires before a later call.    *)

MaxChanges == 3

SaveGaps == {3, 10, 12}

SaveEvents ==
    {[event_type |-> "power_report", gateway_id |-> 1, node_id |-> 10,
      barcode |-> Some("X"), power |-> 50],
     [event_type |-> "power_report", gateway_id |-> 1, node_id |-> 10,
      barcode |-> Some("S"), power |-> 50],
     [event_type |-> "infrastructure", gateways |-> Gateway1,
      nodes |-> <<NodeItem(10, Some("A"))>>],
     [event_type |-> "topology", gateway_id |-> 1, node_id |-> 10]}

\* the observation of a call kind that came back with r at time t
ObservedCall(kind, r, t) ==
    [event |-> Some([event_type |-> kind]), pre |-> Some(Coordinator),
     post |-> Some(r.c), now |-> Some(t), result |-> r.result, raised |-> r.raised]

\* _process_event(event) at time t came back with r, the coordinator having
\* gone into the call with no timer referenced: r.c.save_task tells whether
\* _schedule_save was called
Changed(event, t, r) ==
    /\ InstallCoordinator([r.c EXCEPT !.save_task = save_task \/ r.c.save_task])
    /\ loop_timers' = IF r.c.save_task THEN do_schedule(loop_timers, t) ELSE loop_timers
    /\ scheduled_at' = IF r.c.save_task THEN Some(t) ELSE scheduled_at
    /\ handled' = [event |-> Some(event), pre |-> Some(Coordinator),
                   post |-> Some(r.c), now |-> Some(t),
                   result |-> r.result, raised |-> r.raised]
    /\ wall' = t
    /\ nevents' = nevents + 1

\* one call _process_event(event), dt seconds after the last step, no
\* pending timer being due before it
ChangeAfter(event, dt) ==
    /\ nevents < MaxChanges
    /\ stopper = "not called"
    /\ \A d \in loop_timers : d >= wall + dt
    /\ Changed(event, wall + dt,
               process_event([Coordinator EXCEPT !.save_task = FALSE], event, wall + dt))
    /\ UNCHANGED <<stop_event, source, listener, starter, stopper>>
    /\ UNCHANGED <<parser_vars, energy_vars, library_vars>>

\* the timer due at time due fired and _async_save_coordinator_state came
\* back with r
TimerSaved(due, r) ==
    /\ InstallCoordinator([r.c EXCEPT !.save_task = loop_timers \ {due} # {}])
    /\ loop_timers' = loop_timers \ {due}
    /\ handled' = ObservedCall("save_timer", r, due)
    /\ wall' = due

\* the earliest pending save timer fires at its due time
TimerFires ==
    /\ \E due \in loop_timers :
          /\ \A d \in loop_timers : due <= d
          /\ due >= wall
          /\ TimerSaved(due, save_coordinator_state(Coordinator))
    /\ UNCHANGED <<stop_event, source, listener, starter, stopper, nevents,
                   scheduled_at>>
    /\ UNCHANGED <<parser_vars, energy_vars, library_vars>>

\* async_stop_listener down to the flush, r being what the flush of
\* unsaved changes came back with: the stop signal, the timer _save_task
\* refers to cancelled, the save
StopFlushed(r) ==
    /\ InstallCoordinator([r.c EXCEPT !.save_task = FALSE])
    /\ loop_timers' = loop_timers \ {d \in loop_timers : \A e \in loop_timers : e <= d}
    /\ handled' = ObservedCall("stop", r, wall)
    /\ stopper' = IF r.raised THEN "raised" ELSE "signalled"

StopSave ==
    /\ stopper = "not called"
    /\ stop_event' = TRUE
    /\ StopFlushed(IF unsaved_changes THEN save_coordinator_state(Coordinator)
                   ELSE Returns(Coordinator, FALSE))
    /\ UNCHANGED <<source, listener, starter, wall, nevents, scheduled_at>>
    /\ UNCHANGED <<parser_vars, energy_vars, library_vars>>

InitSave ==
    /\ InitParser(PersistentState_new)
    /\ InitCoordinator({"A"})
    /\ InitAccumulator(None)
    /\ InitLibrary

NextSave ==
    \/ \E event \in SaveEvents, dt \in SaveGaps : ChangeAfter(event, dt)
    \/ TimerFires
    \/ StopSave

SpecSave == InitSave /\ [][NextSave]_vars

---------------------------------------------------------------------------
(* The parser under every read above                                       *)

Init == InitCmd

Next ==
    \/ NextFrame \/ NextEnum \/ NextWindow \/ NextCmd \/ NextRecv \/ NextTable
    \/ NextPower \/ NextEnergy \/ NextCoord
    \/ NextReset \/ NextInfra \/ NextMalformed \/ NextEscape
    \/ NextGiant \/ NextResync \/ NextNumber \/ NextTruncated \/ NextDecode
    \/ NextPair \/ NextCount \/ NextSave

Spec == Init /\ [][Next]_vars

---------------------------------------------------------------------------
(* Properties of the enumeration state machine                             *)

\* the frames dispatched by the last feed call, as observed at their close
Dispatched == {i \in 1..Len(last.closes) : last.closes[i].frame # None}

FrameOf(i) == last.closes[i].frame[1]

IdentityOrVersion == {ENUMERATION_RESPONSE, IDENTIFY_RESPONSE, VERSION_RESPONSE}

\* the parser without its frame extractor, counters and enumeration buffer
OutsideEnumeration(p) ==
    [p EXCEPT !.state = "IDLE", !.buffer = <<>>, !.counters = Counters_new,
              !.enum_state = None]

\* C4: while an enumeration state exists (from an accepted start request to
\* the committing end response), an ENUMERATION_RESPONSE, IDENTIFY_RESPONSE or
\* VERSION_RESPONSE emits no event and changes nothing but the provisional
\* buffer: gateway_identities, gateway_versions and Parser.infrastructure
\* are as before the frame, and an enumeration state still exists.
C4_ProvisionalIsInvisible ==
    \A i \in Dispatched :
        (/\ FrameOf(i).frame_type \in IdentityOrVersion
         /\ last.closes[i].pre.enum_state # None)
        => /\ last.closes[i].events = <<>>
           /\ last.closes[i].post.persistent_state = last.closes[i].pre.persistent_state
           /\ Parser_infrastructure(last.closes[i].post)
                = Parser_infrastructure(last.closes[i].pre)
           /\ OutsideEnumeration(last.closes[i].post)
                = OutsideEnumeration(last.closes[i].pre)
           /\ last.closes[i].post.enum_state # None

\* an identity of gateway 2 went to the provisional buffer and is not in
\* the persistent state
C4_Witness ==
    \E i \in Dispatched :
        /\ FrameOf(i).frame_type = IDENTIFY_RESPONSE
        /\ last.closes[i].pre.enum_state # None
        /\ 2 \notin DOMAIN last.closes[i].pre.enum_state[1].gateway_identities
        /\ 2 \in DOMAIN last.closes[i].post.enum_state[1].gateway_identities
        /\ 2 \notin DOMAIN persistent_state.gateway_identities
        /\ last.events = <<>>

\* C5: an ENUMERATION_END_RESPONSE handled while an enumeration state exists
\* makes gateway_identities and gateway_versions exactly the provisional
\* buffer, ends the enumeration state, and emits exactly one event, an
\* InfrastructureEvent carrying the snapshot Parser.infrastructure then shows.
C5_CommitReplaces ==
    \A i \in Dispatched :
        (/\ FrameOf(i).frame_type = ENUMERATION_END_RESPONSE
         /\ FrameOf(i).address.is_from
         /\ last.closes[i].pre.enum_state # None)
        => /\ last.closes[i].post.persistent_state.gateway_identities
                = last.closes[i].pre.enum_state[1].gateway_identities
           /\ last.closes[i].post.persistent_state.gateway_versions
                = last.closes[i].pre.enum_state[1].gateway_versions
           /\ last.closes[i].post.enum_state = None
           /\ Len(last.closes[i].events) = 1
           /\ last.closes[i].events[1].event_type = "infrastructure"
           /\ last.closes[i].events[1].gateways
                = Parser_infrastructure(last.closes[i].post).gateways
           /\ last.closes[i].events[1].nodes
                = Parser_infrastructure(last.closes[i].post).nodes

\* a commit that removed gateway 1, known before the cycle, and installed
\* gateway 2 with its version
C5_Witness ==
    \E i \in Dispatched :
        /\ FrameOf(i).frame_type = ENUMERATION_END_RESPONSE
        /\ 1 \in DOMAIN last.closes[i].pre.persistent_state.gateway_identities
        /\ DOMAIN persistent_state.gateway_identities = {2}
        /\ DOMAIN persistent_state.gateway_versions = {2}
        /\ enum_state = None
        /\ Len(last.events) = 1
        /\ DOMAIN last.events[1].gateways = {2}

\* C7: while an enumeration state exists, a response of the gateway being
\* enumerated (ENUMERATION_RESPONSE, IDENTIFY_RESPONSE or VERSION_RESPONSE)
\* is not recorded in the provisional buffer, so that gateway is a key of
\* neither gateway_identities nor gateway_versions after the commit.
C7_EnumeratorNotRecorded ==
    \A i \in Dispatched :
        /\ (/\ FrameOf(i).frame_type \in IdentityOrVersion
            /\ last.closes[i].pre.enum_state # None
            /\ FrameOf(i).address.gateway_id
                 = last.closes[i].pre.enum_state[1].enumeration_gateway_id)
           => last.closes[i].post.enum_state = last.closes[i].pre.enum_state
        /\ (/\ FrameOf(i).frame_type = ENUMERATION_END_RESPONSE
            /\ last.closes[i].pre.enum_state # None
            /\ last.closes[i].post.enum_state = None)
           => LET gw == last.closes[i].pre.enum_state[1].enumeration_gateway_id
              IN  /\ gw \notin DOMAIN last.closes[i].post.persistent_state.gateway_identities
                  /\ gw \notin DOMAIN last.closes[i].post.persistent_state.gateway_versions

---------------------------------------------------------------------------
(* Properties of the enumeration window as a whole                         *)

\* C6: over an enumeration window, from an accepted ENUMERATION_START_REQUEST
\* up to and including the ENUMERATION_END_RESPONSE that commits it, at most
\* one InfrastructureEvent is emitted, whatever frames arrive in between.
C6_OneEventPerWindow == window_events <= 1

---------------------------------------------------------------------------
(* Properties of command correlation and node tables                       *)

\* the parser once the loop of feed has taken a frame from _accumulate and
\* counted it, before the frame's handler runs
Received(p) ==
    [p EXCEPT !.state = "IDLE", !.buffer = <<>>, !.counters.frames_received = @ + 1]

CommandKey(frame) == <<frame.address.gateway_id, frame.payload[5]>>

\* a COMMAND_RESPONSE of a gateway for which a request is stored in p
Outstanding(p, frame) ==
    /\ frame.address.is_from
    /\ Len(frame.payload) >= 5
    /\ CommandKey(frame) \in DOMAIN p.commands_awaiting

\* C8: a COMMAND_RESPONSE is paired only with an outstanding request to the
\* same gateway with the same sequence number; a response that has none, one
\* whose sequence number matches a request of another gateway included,
\* emits no event and its handler leaves the parser as it found it.
C8_UnmatchedResponseIgnored ==
    \A i \in Dispatched :
        (/\ FrameOf(i).frame_type = COMMAND_RESPONSE
         /\ ~Outstanding(last.closes[i].pre, FrameOf(i)))
        => /\ last.closes[i].events = <<>>
           /\ ~last.closes[i].raised
           /\ last.closes[i].post = Received(last.closes[i].pre)

\* a response of gateway 2 with sequence number 1 arrived while only the
\* request to gateway 1 with sequence number 1 was outstanding, and the
\* request is still outstanding
C8_Witness ==
    \E i \in Dispatched :
        /\ FrameOf(i).frame_type = COMMAND_RESPONSE
        /\ FrameOf(i).address.is_from
        /\ CommandKey(FrameOf(i)) = <<2, 1>>
        /\ <<2, 1>> \notin DOMAIN last.closes[i].pre.commands_awaiting
        /\ <<1, 1>> \in DOMAIN last.closes[i].pre.commands_awaiting
        /\ <<1, 1>> \in DOMAIN commands_awaiting
        /\ last.events = <<>>

\* C9: a COMMAND_REQUEST leaves exactly one outstanding entry under
\* (gateway, sequence number), holding that request's packet type and
\* payload whatever was stored under the key before, and touches no other
\* entry; a matching COMMAND_RESPONSE removes the entry and dispatches one
\* pair, made of the stored request and the response (for a string pair: one
\* StringEvent with the stored request's node and text).
C9_RetransmissionOverwrites ==
    \A i \in Dispatched :
        LET f == FrameOf(i)
            pre == last.closes[i].pre.commands_awaiting
            post == last.closes[i].post.commands_awaiting
            key == CommandKey(f)
        IN  /\ (/\ f.frame_type = COMMAND_REQUEST
                /\ ~f.address.is_from
                /\ Len(f.payload) >= 5)
               => /\ DOMAIN post = DOMAIN pre \cup {key}
                  /\ post[key] = [packet_type |-> f.payload[4],
                                  payload |-> SliceFrom(f.payload, 5)]
                  /\ \A k \in DOMAIN pre \ {key} : post[k] = pre[k]
            /\ (/\ f.frame_type = COMMAND_RESPONSE
                /\ Outstanding(last.closes[i].pre, f))
               => /\ post = DictDel(pre, key)
                  /\ Len(last.closes[i].events) <= 1
                  /\ (/\ pre[key].packet_type = STRING_REQUEST
                      /\ f.payload[4] = STRING_RESPONSE
                      /\ Len(pre[key].payload) >= 2)
                     => /\ Len(last.closes[i].events) = 1
                        /\ last.closes[i].events[1].event_type = "string"
                        /\ last.closes[i].events[1].gateway_id = f.address.gateway_id
                        /\ last.closes[i].events[1].node_id
                             = U16BE(Slice(pre[key].payload, 0, 2))
                        /\ last.closes[i].events[1].content
                             = utf8_decode(SliceFrom(pre[key].payload, 2))

\* two requests to gateway 1 with sequence number 1, to node 1 with text "A"
\* and then to node 2 with text "B", and one response: one StringEvent, of
\* node 2 with text "B", and nothing outstanding
C9_Witness ==
    /\ Len(last.closes) = 3
    /\ Dispatched = {1, 2, 3}
    /\ FrameOf(1).frame_type = COMMAND_REQUEST
    /\ FrameOf(2).frame_type = COMMAND_REQUEST
    /\ CommandKey(FrameOf(1)) = CommandKey(FrameOf(2))
    /\ FrameOf(1).payload # FrameOf(2).payload
    /\ CommandKey(FrameOf(2)) \in DOMAIN last.closes[2].pre.commands_awaiting
    /\ FrameOf(3).frame_type = COMMAND_RESPONSE
    /\ Len(last.events) = 1
    /\ last.events[1].event_type = "string"
    /\ last.events[1].node_id = 2
    /\ last.events[1].content = <<66>>
    /\ CommandKey(FrameOf(2)) \notin DOMAIN commands_awaiting

\* a correlated NODE_TABLE pair with a well-formed response
NodeTablePair(i) ==
    LET f == FrameOf(i)
        pre == last.closes[i].pre
    IN  /\ f.frame_type = COMMAND_RESPONSE
        /\ Outstanding(pre, f)
        /\ pre.commands_awaiting[CommandKey(f)].packet_type = NODE_TABLE_REQUEST
        /\ Len(pre.commands_awaiting[CommandKey(f)].payload) >= 2
        /\ f.payload[4] = NODE_TABLE_RESPONSE
        /\ Len(f.payload) >= 6
        /\ Len(f.payload) - 6 = f.payload[6] * 10

\* the entries accumulated for a gateway since the last finalisation
Accumulated(p, gw) ==
    IF gw \in DOMAIN p.node_table_builders THEN p.node_table_builders[gw] ELSE EmptyDict

\* C10: a correlated NODE_TABLE pair whose response has count 0 replaces
\* the gateway's stored node table by exactly the entries accumulated since
\* the previous finalisation, empties the accumulator and emits exactly one
\* InfrastructureEvent; a pair with a non-empty page adds the page to the
\* accumulator, emits nothing and leaves the stored tables alone.
C10_TerminatorFinalises ==
    \A i \in Dispatched :
        NodeTablePair(i) =>
            LET f == FrameOf(i)
                gw == f.address.gateway_id
                pre == last.closes[i].pre
                post == last.closes[i].post
                page == node_table_entries(SliceFrom(f.payload, 6), f.payload[6])
            IN  IF f.payload[6] = 0
                THEN /\ gw \in DOMAIN post.persistent_state.gateway_node_tables
                     /\ post.persistent_state.gateway_node_tables[gw]
                          = Accumulated(pre, gw)
                     /\ Accumulated(post, gw) = EmptyDict
                     /\ Len(last.closes[i].events) = 1
                     /\ last.closes[i].events[1].event_type = "infrastructure"
                ELSE /\ last.closes[i].events = <<>>
                     /\ post.persistent_state = pre.persistent_state
                     /\ Accumulated(post, gw)
                          = push_entries(Accumulated(pre, gw), page, 1)

---------------------------------------------------------------------------
(* Properties of feed as a whole                                           *)

\* the content of a closed frame passes both tests of _decode_frame
ValidContent(content) ==
    /\ Len(content) >= 6
    /\ U16LE(SubSeq(content, Len(content) - 1, Len(content)))
         = crc(SubSeq(content, 1, Len(content) - 2))

\* C1: during a call of feed, frames_received grows by the number of frames
\* closed (7E 08 after an opening 7E 07) whose unescaped content is at least
\* 6 bytes long and ends in the little-endian CRC-16 of the bytes before;
\* exactly these are dispatched, as the address, type and payload the
\* content holds; a closed frame that fails either test yields no event and
\* changes nothing but the extractor's state and the runts counter (too
\* short) or the crc_errors counter.
C1_OnlyValidFramesDispatched ==
    [][/\ counters'.frames_received
            = counters.frames_received
              + Cardinality({i \in 1..Len(last'.closes) :
                                ValidContent(last'.closes[i].content)})
       /\ \A i \in 1..Len(last'.closes) :
            LET c == last'.closes[i]
                n == Len(c.content)
            IN  IF ValidContent(c.content)
                THEN /\ c.frame # None
                     /\ c.frame[1].address = Address_from_bytes(SubSeq(c.content, 1, 2))
                     /\ c.frame[1].frame_type = U16BE(SubSeq(c.content, 3, 4))
                     /\ c.frame[1].payload = SubSeq(c.content, 5, n - 2)
                     /\ c.post.counters.frames_received
                          = c.pre.counters.frames_received + 1
                ELSE /\ c.frame = None
                     /\ c.events = <<>>
                     /\ c.post = [c.pre EXCEPT
                                    !.state = "IDLE",
                                    !.buffer = <<>>,
                                    !.counters.runts = IF n < 6 THEN @ + 1 ELSE @,
                                    !.counters.crc_errors = IF n < 6 THEN @ ELSE @ + 1]
      ]_vars

\* a frame with a wrong CRC, a runt with a right one and a valid frame have
\* all been closed: one frame received and announced, one CRC error, one runt
C1_Witness ==
    /\ counters.frames_received = 1
    /\ counters.crc_errors = 1
    /\ counters.runts = 1
    /\ 2 \in DOMAIN persistent_state.gateway_versions
    /\ Len(last.closes) = 1

\* C2: Parser.feed returns a list of events and never raises, whatever the
\* bytes and the parser state, for all frame types, payload lengths and
\* 16-bit slot-counter values of CRC-valid frames.
C2_FeedNeverRaises == ~last.raised

\* byte streams to split: a receive pair whose response carries the slot
\* counter of epoch 3, slot 12000, followed by a version response; the same
\* with a slot counter of epoch 1; a frame with a bad CRC between two
\* version responses
SplitStreams ==
    {ReceiveRequest(1, 0) \o ReceiveResponse(1, 1, 61152, <<>>) \o wire(GoodContent),
     ReceiveRequest(1, 0) \o ReceiveResponse(1, 1, 16384, <<>>) \o wire(GoodContent),
     wire(GoodContent) \o wire(BadCrcContent) \o VersionResponse(1)}

\* what a caller has after the calls whose results are given in order: the
\* events of the lists returned, the frame state, the counters and the
\* infrastructure
Outcome(results) ==
    LET p == results[Len(results)].p
    IN  [events |-> IF Len(results) = 1 THEN results[1].events
                    ELSE results[1].events \o results[2].events,
         state |-> p.state,
         buffer |-> p.buffer,
         counters |-> p.counters,
         infrastructure |-> Parser_infrastructure(p)]

\* feed(B[:k]) and then feed(B[k:]) on the parser p
feed_split(p, B, k, t) ==
    LET first == feed(p, SubSeq(B, 1, k), t)
    IN  <<first, feed(first.p, SubSeq(B, k + 1, Len(B)), t)>>

\* C3: from any parser state, feeding B[:k] and then B[k:] gives the same
\* events (at one wall-clock reading), the same final frame state, counters
\* and infrastructure as feeding B in one call, for every split point k.
C3_SplitEquivalence ==
    \A B \in SplitStreams :
        \A k \in 0..Len(B) :
            Outcome(feed_split(Cur, B, k, now)) = Outcome(<<feed(Cur, B, now)>>)

---------------------------------------------------------------------------
(* The stored node tables                                                  *)

\* C11: in a parser started with an empty persistent state, a gateway has a
\* stored node table only if one of its transfers was completed by a
\* terminator, and the stored table is then exactly the entries of the pages
\* of the last completed transfer.
C11_TableIsLastCompletedTransfer ==
    \A gw \in {1, 2} :
        IF TransferOf(transfers, gw).completed = None
        THEN gw \notin DOMAIN persistent_state.gateway_node_tables
        ELSE /\ gw \in DOMAIN persistent_state.gateway_node_tables
             /\ persistent_state.gateway_node_tables[gw]
                  = TransferOf(transfers, gw).completed[1]

---------------------------------------------------------------------------
(* Power reports                                                           *)

\* a RECEIVE_RESPONSE with status type 00FF that _handle_receive_response
\* handles down to its packet loop: from a gateway whose packet number is
\* known and that has a slot clock once the frame's slot counter is taken
HandledResponse(c) ==
    /\ c.frame # None
    /\ c.frame[1].frame_type = RECEIVE_RESPONSE
    /\ c.frame[1].address.is_from
    /\ c.frame[1].address.gateway_id \in DOMAIN c.pre.rx_packet_numbers
    /\ Len(c.frame[1].payload) >= 5
    /\ Slice(c.frame[1].payload, 0, 2) = <<0, 255>>
    /\ IndexInRange(SlotClock_index_and_offset(
                        U16BE(Slice(c.frame[1].payload, 3, 5))).index)
    /\ \/ c.frame[1].address.gateway_id \in DOMAIN c.pre.slot_clocks
       \/ c.frame[1].address.gateway_id \in DOMAIN c.pre.captured_slot_times

\* the power reports among the received packets of such a frame: from a
\* node other than the broadcast address, of 13 bytes or more, with a slot
\* counter the slot clock has an entry for
PowerReports(frame) ==
    SelectSeq(iter_received_packets(SliceFrom(frame.payload, 5)),
              LAMBDA pk :
                  /\ pk.header_bytes[1] = POWER_REPORT
                  /\ U16BE(Slice(pk.header_bytes, 1, 3)) # 0
                  /\ Len(pk.pkt_data) >= 13
                  /\ IndexInRange(SlotClock_index_and_offset(
                                      U16BE(Slice(pk.pkt_data, 10, 12))).index))

\* the barcode of node n in the stored table of gateway gw, null without one
StoredBarcode(p, gw, n) ==
    IF /\ gw \in DOMAIN p.persistent_state.gateway_node_tables
       /\ n \in DOMAIN p.persistent_state.gateway_node_tables[gw]
    THEN barcode_from_address(p.persistent_state.gateway_node_tables[gw][n])
    ELSE None

---------------------------------------------------------------------------
(* Energy accumulation                                                     *)

\* the seconds between the last sample and the reading the accumulator held
\* before it
SampleDelta == sample.now[1] - sample.pre[1].last_reading_ts[1]

\* the last sample came to an accumulator holding a previous reading
AfterReading == sample.pre # None /\ sample.pre[1].last_reading_ts # None

\* the daily energy the last sample was integrated into: zero when its date
\* is not the accumulator's reset date
DailyBefore ==
    IF sample.pre[1].daily_reset_date # Some(date(sample.now[1])) THEN 0
    ELSE sample.pre[1].daily_energy_wh

\* C16: a sample (p, t) that follows the previous reading (last_p, t_prev)
\* by 0 < ds <= gap_threshold adds ((last_p + p) / 2) * (ds / 3600) Wh,
\* negative powers counting as 0, to the daily and the total energy and
\* returns it as increment_wh; with equal powers p >= 0 that is
\* p * ds / 3600 Wh.  Energies count 1/7200 Wh.
C16_TrapezoidWithinGap ==
    (/\ AfterReading
     /\ 0 < SampleDelta
     /\ SampleDelta <= ENERGY_GAP_THRESHOLD_SECONDS) =>
        LET last_p == IF sample.pre[1].last_power_w < 0 THEN 0
                      ELSE sample.pre[1].last_power_w
            p == IF sample.power[1] < 0 THEN 0 ELSE sample.power[1]
        IN  /\ 2 * sample.result[1].increment_wh * 3600
                 = (last_p + p) * SampleDelta * 7200
            /\ accumulator.daily_energy_wh
                 = DailyBefore + sample.result[1].increment_wh
            /\ accumulator.total_energy_wh
                 = sample.pre[1].total_energy_wh + sample.result[1].increment_wh
            /\ last_p = p =>
                 sample.result[1].increment_wh * 3600 = p * SampleDelta * 7200

\* a reading of 100 W followed, exactly gap_threshold seconds later, by one
\* of 2 W: 51 W over 120 s, 1.7 Wh, is added
C16_Witness ==
    /\ AfterReading
    /\ SampleDelta = ENERGY_GAP_THRESHOLD_SECONDS
    /\ sample.pre[1].last_power_w = 100
    /\ sample.power[1] = 2
    /\ sample.result[1].increment_wh * 10 = 17 * 7200
    /\ accumulator.total_energy_wh = sample.result[1].increment_wh

\* C17: a sample that follows the previous reading by more than
\* gap_threshold seconds adds nothing to the daily or the total energy and
\* returns increment 0; discarded_gap_during_production is true exactly
\* when the previous or the new power exceeds low_power_threshold; the
\* sample becomes the last reading either way.
C17_GapAddsNothing ==
    (AfterReading /\ SampleDelta > ENERGY_GAP_THRESHOLD_SECONDS) =>
        /\ sample.result[1].increment_wh = 0
        /\ accumulator.daily_energy_wh = DailyBefore
        /\ accumulator.total_energy_wh = sample.pre[1].total_energy_wh
        /\ sample.result[1].discarded_gap_during_production
             = (\/ sample.pre[1].last_power_w > ENERGY_LOW_POWER_THRESHOLD_W
                \/ sample.power[1] > ENERGY_LOW_POWER_THRESHOLD_W)
        /\ accumulator.last_power_w
             = (IF sample.power[1] < 0 THEN 0 ELSE sample.power[1])
        /\ accumulator.last_reading_ts = sample.now

\* a reading of 1 W, not above the threshold, followed 121 s later by one of
\* 2 W: nothing is added to the energy collected before and the gap is flagged
C17_Witness ==
    /\ AfterReading
    /\ SampleDelta = ENERGY_GAP_THRESHOLD_SECONDS + 1
    /\ sample.pre[1].last_power_w = 1
    /\ sample.power[1] = 2
    /\ sample.pre[1].total_energy_wh > 0
    /\ sample.result[1].discarded_gap_during_production
    /\ accumulator.last_power_w = 2

\* C18: daily_energy_wh is reset to 0, before the sample is integrated,
\* exactly when the date of the sample differs from daily_reset_date, which
\* then becomes the sample's date; total_energy_wh is never reset.
C18_DailyResetOnDateChange ==
    sample.pre # None =>
        /\ accumulator.daily_reset_date = Some(date(sample.now[1]))
        /\ accumulator.daily_energy_wh
             = (IF sample.pre[1].daily_reset_date # Some(date(sample.now[1]))
                THEN 0 ELSE sample.pre[1].daily_energy_wh)
               + sample.result[1].increment_wh
        /\ accumulator.total_energy_wh
             = sample.pre[1].total_energy_wh + sample.result[1].increment_wh
        /\ sample.result[1].increment_wh >= 0

\* a sample on the day after the reset date of an accumulator that holds
\* energy, within the gap threshold of the last reading: the daily energy
\* is the increment alone and the total has grown by it
C18_Witness ==
    /\ AfterReading
    /\ sample.pre[1].daily_energy_wh > 0
    /\ sample.pre[1].daily_reset_date = Some(date(sample.now[1]) - 1)
    /\ sample.result[1].increment_wh > 0
    /\ accumulator.daily_energy_wh = sample.result[1].increment_wh
    /\ accumulator.total_energy_wh > accumulator.daily_energy_wh

\* C19: the accumulator has a readings_today counter, and after any
\* sequence of accumulate_energy calls it is the number of samples taken
\* since daily_reset_date last changed.
C19_ReadingsTodayCounts ==
    nsamples > 0 =>
        /\ "readings_today" \in DOMAIN accumulator
        /\ accumulator.readings_today = samples_today

---------------------------------------------------------------------------
(* The coordinator's handlers                                              *)

\* the last _process_event call was for an event of the given type
HandledA(type) == handled.event # None /\ handled.event[1].event_type = type

\* a power report without a barcode
NullReport == HandledA("power_report") /\ handled.event[1].barcode = None

\* the InfrastructureEvent just handled carries a node table
TableHandled(h) ==
    /\ h.event # None
    /\ h.event[1].event_type = "infrastructure"
    /\ Len(h.event[1].nodes) > 0

\* C13: from the start of the listener until an InfrastructureEvent with a
\* non-empty node table is handled, a power report without a barcode is
\* not resolved through the cached node-to-barcode map: it leaves the node
\* data, the accumulators and the discovered barcodes as they are, whatever
\* the cached maps hold.  Once such an event is handled, a report without
\* a barcode from a node of the rebuilt map is handled, without an error,
\* as the report of that node's barcode is: a barcode of the allow-list
\* gets its entry of data["nodes"], any other is a discovered barcode.
C13_NoResolutionBeforeNodeTable ==
    [][/\ (infra_received' /\ ~infra_received) => TableHandled(handled')
       /\ (/\ nevents' # nevents
           /\ handled'.event[1].event_type = "power_report"
           /\ handled'.event[1].barcode = None) =>
              LET h == handled'
                  e == h.event[1]
                  pre == h.pre[1]
                  post == h.post[1]
              IN  IF ~pre.infra_received
                  THEN /\ post.data.nodes = pre.data.nodes
                       /\ post.energy_state = pre.energy_state
                       /\ post.discovered_barcodes = pre.discovered_barcodes
                       /\ post.data.discovered_barcodes = pre.data.discovered_barcodes
                       /\ ~h.raised
                       /\ ~h.result
                  ELSE e.node_id \in DOMAIN pre.node_to_barcode =>
                         /\ ~h.raised
                         /\ [c |-> post, result |-> h.result, raised |-> h.raised]
                              = process_event(
                                    pre,
                                    [e EXCEPT !.barcode =
                                                  Some(pre.node_to_barcode[e.node_id])],
                                    h.now[1])
                         /\ IF pre.node_to_barcode[e.node_id] \in pre.configured_barcodes
                            THEN /\ h.result
                                 /\ pre.node_to_barcode[e.node_id] \in DOMAIN post.data.nodes
                                 /\ post.data.nodes[pre.node_to_barcode[e.node_id]].node_id
                                      = e.node_id
                            ELSE pre.node_to_barcode[e.node_id]
                                   \in post.discovered_barcodes
      ]_vars

\* the items of a node table that carry a barcode, as pairs
Pairs(nodes) ==
    {<<nodes[i].node_id, nodes[i].barcode[1]>> :
        i \in {k \in 1..Len(nodes) : nodes[k].barcode # None}}

\* the pairs (node, barcode) of a node-to-barcode map
PairsOfNodes(n2b) == {<<n, n2b[n]>> : n \in DOMAIN n2b}

\* the pairs (node, barcode) of a barcode-to-node map
PairsOfBarcodes(b2n) == {<<b2n[b], b>> : b \in DOMAIN b2n}

\* C14: an InfrastructureEvent with a non-empty node table replaces both
\* maps by the (node_id, barcode) pairs of the event, one node per barcode
\* in the barcode-to-node map, so that no earlier mapping absent from the
\* event stays; one with an empty node table leaves both maps unchanged.
C14_MapsRebuiltFromEvent ==
    HandledA("infrastructure") =>
        LET e == handled.event[1]
            pre == handled.pre[1]
            post == handled.post[1]
        IN  IF Len(e.nodes) > 0
            THEN /\ PairsOfNodes(post.node_to_barcode) = Pairs(e.nodes)
                 /\ PairsOfBarcodes(post.barcode_to_node) \subseteq Pairs(e.nodes)
                 /\ DOMAIN post.barcode_to_node = {p[2] : p \in Pairs(e.nodes)}
            ELSE /\ post.node_to_barcode = pre.node_to_barcode
                 /\ post.barcode_to_node = pre.barcode_to_node

\* the maps held A on node 10 and S on node 99; a node table with A on
\* node 15 and X on node 10 leaves no trace of node 99, of S or of A on 10
C14_Witness ==
    /\ HandledA("infrastructure")
    /\ DictGet(handled.pre[1].barcode_to_node, "A") = Some(10)
    /\ DictGet(handled.pre[1].node_to_barcode, 99) = Some("S")
    /\ barcode_to_node = DictPut(DictPut(EmptyDict, "A", 15), "X", 10)
    /\ node_to_barcode = DictPut(DictPut(EmptyDict, 15, "A"), 10, "X")

\* the barcode a power report is handled under: its own, or the one the
\* node-to-barcode map gives once a node table has come
ResolvedBarcode(pre, e) ==
    IF e.barcode # None THEN e.barcode
    ELSE IF pre.infra_received /\ e.node_id \in DOMAIN pre.node_to_barcode
    THEN Some(pre.node_to_barcode[e.node_id])
    ELSE None

\* C15: after any sequence of events, a power report whose resolved barcode
\* is not in the allow-list creates or updates no entry of data["nodes"]
\* and no accumulator and raises no error: its barcode joins the discovered
\* set, which is a data change the first time and none afterwards, and
\* nothing else of the coordinator changes but the pending save.
C15_UnlistedBarcodeOnlyDiscovered ==
    (/\ HandledA("power_report")
     /\ ResolvedBarcode(handled.pre[1], handled.event[1]) # None
     /\ ResolvedBarcode(handled.pre[1], handled.event[1])[1]
          \notin handled.pre[1].configured_barcodes) =>
        LET b == ResolvedBarcode(handled.pre[1], handled.event[1])[1]
            pre == handled.pre[1]
            post == handled.post[1]
        IN  /\ ~handled.raised
            /\ handled.result = (b \notin pre.discovered_barcodes)
            /\ post.discovered_barcodes = pre.discovered_barcodes \cup {b}
            /\ post = [pre EXCEPT
                          !.discovered_barcodes = @ \cup {b},
                          !.data.discovered_barcodes =
                              IF b \in pre.discovered_barcodes THEN @
                              ELSE pre.discovered_barcodes \cup {b},
                          !.unsaved_changes = @ \/ b \notin pre.discovered_barcodes,
                          !.save_task = @ \/ b \notin pre.discovered_barcodes]

\* barcode X, not in the allow-list {A}, reported a second time, by a node
\* other than the first, after a report of A: no data change, no entry
C15_Witness ==
    /\ HandledA("power_report")
    /\ handled.event[1].barcode = Some("X")
    /\ handled.pre[1].configured_barcodes = {"A"}
    /\ "X" \in handled.pre[1].discovered_barcodes
    /\ "A" \in DOMAIN handled.pre[1].energy_state
    /\ ~handled.result
    /\ ~handled.raised
    /\ coordinator_data.nodes = EmptyDict
    /\ "X" \notin DOMAIN energy_state

---------------------------------------------------------------------------
(* Stopping the listener                                                   *)

C21_FlushAfterCloseAndJoin ==
    [][(/\ stopper' # stopper
        /\ unsaved_changes
        /\ ~unsaved_changes')
       => /\ source # Some("open")
          /\ listener \notin {"running", "connecting"}]_vars

---------------------------------------------------------------------------
(* The reconnect loop                                                      *)

\* C22: the count of consecutive failed attempts is reset only after a read
\* on the newly opened source has succeeded, so it never falls below the
\* number of attempts in a row that delivered no data, and with a positive
\* limit the loop has ended once that number exceeds the limit.
C22_RetriesResetAfterRead ==
    /\ observer.retries >= observer.fruitless
    /\ (/\ observer.reconnect_retries > 0
        /\ observer.fruitless > observer.reconnect_retries)
       => observer.pc = "returned"

---------------------------------------------------------------------------
(* Parser.reset                                                            *)

\* the parser that reset() was called on, as the claim has it afterwards
AfterReset == [reset_call[1].pre EXCEPT !.state = "IDLE", !.buffer = <<>>]

\* C25: Parser.reset() leaves the frame extractor IDLE with an empty buffer
\* and every other part of the parser as it was (counters, persistent
\* state, commands awaiting a response, packet numbers, slot clocks,
\* enumeration state, node-table builders); the read that follows gives the
\* events, and leaves the parser, that it gives a parser which was IDLE with
\* an empty buffer: nothing of the frame that was open is seen again.
C25_ResetClearsFrameOnly ==
    reset_call # None =>
        /\ nfeeds = reset_call[1].at => Cur = AfterReset
        /\ nfeeds = reset_call[1].at + 1 =>
               /\ last.events = feed(AfterReset, last.data, now).events
               /\ Cur = feed(AfterReset, last.data, now).p

\* a frame was open and every part of the parser was filled when reset()
\* was called, and the read after it gave an event
C25_Witness ==
    /\ reset_call # None
    /\ reset_call[1].pre.state # "IDLE"
    /\ reset_call[1].pre.buffer # <<>>
    /\ reset_call[1].pre.persistent_state # PersistentState_new
    /\ reset_call[1].pre.commands_awaiting # EmptyDict
    /\ nfeeds = reset_call[1].at + 1
    /\ last.events # <<>>

---------------------------------------------------------------------------
(* The slot clock                                                          *)

\* the place of a counter in the cycle of 48000 slots
AbsoluteSlot(sc) == SlotCounter_epoch(sc) * SLOTS_PER_EPOCH + SlotCounter_slot_number(sc)

\* both counters lie in blocks up to the block last set, or both after it
SameSideOfLastIndex(sc, past) ==
    (SlotClock_index_and_offset(sc).index <= clock[1].c.last_index)
        = (SlotClock_index_and_offset(past).index <= clock[1].c.last_index)

Distance(a, b) == IF a >= b THEN a - b ELSE b - a

\* C26 as stated: for any two slot counters, get(sc) and get(sc') differ by
\* at most 5 ms for each of the |slots_since(sc, sc')| slots, plus 5 ms.
C26_DriftBound ==
    \A sc \in ClockCounters, past \in ClockCounters :
        Distance(SlotClock_get(clock[1].c, sc).time, SlotClock_get(clock[1].c, past).time)
            <= 5 * Distance(SlotCounter_slots_since(sc, past), 0) + 5

\* C26, amended: the table is a cycle of 48 blocks that is cut after the
\* block last set.  For two counters on the same side of the cut, sc not
\* before past in the table, get(sc) - get(past) is exactly
\* 5 ms * slots_since(sc, past).
C26_DriftBoundWithinCut ==
    \A sc \in ClockCounters, past \in ClockCounters :
        (/\ SameSideOfLastIndex(sc, past)
         /\ AbsoluteSlot(sc) >= AbsoluteSlot(past))
        => SlotClock_get(clock[1].c, sc).time - SlotClock_get(clock[1].c, past).time
             = 5 * SlotCounter_slots_since(sc, past)

\* the clock was set twice, the second time in an earlier block of the
\* table than the first, and counters of different epochs lie on either
\* side of the block last set
C26_Witness ==
    /\ clock[1].nsets = MaxSets
    /\ clock[1].c.last_index \in 12..35
    /\ clock[1].c.last_time > ClockStart + 5 * 48000

---------------------------------------------------------------------------
(* The infrastructure event                                                *)

\* the event e shows the persistent state ps whole
CompleteView(e, ps) ==
    /\ DOMAIN e.gateways = (DOMAIN ps.gateway_identities) \cup (DOMAIN ps.gateway_versions)
    /\ \A gw \in DOMAIN e.gateways :
          /\ e.gateways[gw].address
               = IF gw \in DOMAIN ps.gateway_identities
                 THEN Some(LongAddress_str(ps.gateway_identities[gw]))
                 ELSE None
          /\ e.gateways[gw].version = DictGet(ps.gateway_versions, gw)
    /\ \A gw \in DOMAIN ps.gateway_node_tables :
          \A n \in DOMAIN ps.gateway_node_tables[gw] :
              /\ n \in DOMAIN e.nodes
              /\ e.nodes[n].address
                   = Some(LongAddress_str(ps.gateway_node_tables[gw][n]))

\* C27: every InfrastructureEvent carries the whole current view: its
\* gateways are the ids of gateway_identities and gateway_versions, address
\* or version null when unknown, its nodes hold every entry of every
\* gateway's stored node table, and it equals Parser.infrastructure read
\* right after the frame that emitted it.
C27_CompleteView ==
    \A i \in 1..Len(last.closes) :
        \A k \in 1..Len(last.closes[i].events) :
            last.closes[i].events[k].event_type = "infrastructure" =>
                /\ CompleteView(last.closes[i].events[k],
                                last.closes[i].post.persistent_state)
                /\ [gateways |-> last.closes[i].events[k].gateways,
                    nodes |-> last.closes[i].events[k].nodes]
                     = Parser_infrastructure(last.closes[i].post)

\* C27 without the nodes' part: the event equals Parser.infrastructure and
\* its gateways are those of the persistent state
C27_EqualsProperty ==
    \A i \in 1..Len(last.closes) :
        \A k \in 1..Len(last.closes[i].events) :
            last.closes[i].events[k].event_type = "infrastructure" =>
                /\ DOMAIN last.closes[i].events[k].gateways
                     = (DOMAIN last.closes[i].post.persistent_state.gateway_identities)
                         \cup (DOMAIN last.closes[i].post.persistent_state.gateway_versions)
                /\ [gateways |-> last.closes[i].events[k].gateways,
                    nodes |-> last.closes[i].events[k].nodes]
                     = Parser_infrastructure(last.closes[i].post)

---------------------------------------------------------------------------
(* Malformed node-table responses                                          *)

\* a frame close that _handle_command_response pairs with a stored
\* NODE_TABLE_REQUEST and whose entry bytes do not number count * 10
MalformedPage(c) ==
    /\ c.frame # None
    /\ c.frame[1].frame_type = COMMAND_RESPONSE
    /\ c.frame[1].address.is_from
    /\ Len(c.frame[1].payload) >= 6
    /\ <<c.frame[1].address.gateway_id, c.frame[1].payload[5]>>
         \in DOMAIN c.pre.commands_awaiting
    /\ LET req == c.pre.commands_awaiting[<<c.frame[1].address.gateway_id,
                                             c.frame[1].payload[5]>>]
       IN  /\ req.packet_type = NODE_TABLE_REQUEST
           /\ Len(req.payload) >= 2
    /\ c.frame[1].payload[4] = NODE_TABLE_RESPONSE
    /\ Len(c.frame[1].payload) - 6 # c.frame[1].payload[6] * 10

\* the close is the terminator of a transfer of gateway gw
Terminator(c, gw) ==
    /\ TransferPage(c)
    /\ c.frame[1].address.gateway_id = gw
    /\ c.frame[1].payload[6] = 0

\* what gateway gw has accumulated in parser p
BuilderOf(p, gw) ==
    IF gw \in DOMAIN p.node_table_builders THEN p.node_table_builders[gw] ELSE EmptyDict

\* close j is the first terminator of gateway gw after close i
NextTerminator(closes, i, j, gw) ==
    /\ i < j
    /\ Terminator(closes[j], gw)
    /\ \A h \in (i + 1)..(j - 1) : ~Terminator(closes[h], gw)

\* C28: a correlated NODE_TABLE response whose entry bytes do not number
\* count * 10 leaves the node-table builders and the persistent state as they
\* were and emits no event; what the gateway had accumulated before it is in
\* the table that the next terminator stores; and across reads a gateway's
\* builder holds exactly the entries of the well-formed pages since its last
\* terminator.
C28_MalformedResponseDropped ==
    /\ \A i \in 1..Len(last.closes) :
          MalformedPage(last.closes[i]) =>
              /\ last.closes[i].post.node_table_builders
                   = last.closes[i].pre.node_table_builders
              /\ last.closes[i].post.persistent_state
                   = last.closes[i].pre.persistent_state
              /\ last.closes[i].events = <<>>
              /\ \A j \in 1..Len(last.closes) :
                    NextTerminator(last.closes, i, j,
                                   last.closes[i].frame[1].address.gateway_id) =>
                        \A n \in DOMAIN BuilderOf(last.closes[i].pre,
                                                  last.closes[i].frame[1].address.gateway_id) :
                            /\ n \in DOMAIN last.closes[j].post.persistent_state
                                              .gateway_node_tables[last.closes[j].frame[1].address.gateway_id]
                            /\ last.closes[j].post.persistent_state
                                   .gateway_node_tables[last.closes[j].frame[1].address.gateway_id][n]
                                 = BuilderOf(last.closes[i].pre,
                                             last.closes[i].frame[1].address.gateway_id)[n]
    /\ \A gw \in {1, 2} : BuilderOf(Cur, gw) = TransferOf(transfers, gw).pages

\* one read held a page with node 1, a malformed response and a terminator,
\* and the terminator stored a table with node 1
C28_Witness ==
    /\ Len(last.closes) = 6
    /\ TransferPage(last.closes[2])
    /\ MalformedPage(last.closes[4])
    /\ BuilderOf(last.closes[4].pre, 1) = DictPut(EmptyDict, 1, NodeLongAddress(1))
    /\ Terminator(last.closes[6], 1)
    /\ last.closes[6].events # <<>>
    /\ persistent_state.gateway_node_tables[1] = DictPut(EmptyDict, 1, NodeLongAddress(1))

---------------------------------------------------------------------------
(* Loading the stored state                                                *)

\* an entry that the loops of load cannot convert
MalformedEntry(e) ==
    \/ int_of(e.key) = None
    \/ e.value.type # "str"
    \/ LongAddress_from_str(e.value.text) = None

\* reading or decoding the document fails somewhere
LoadFails(doc) ==
    \/ doc.kind # "object"
    \/ \E i \in 1..Len(doc.sections.gateway_identities) :
          MalformedEntry(doc.sections.gateway_identities[i])
    \/ \E i \in 1..Len(doc.sections.gateway_versions) :
          int_of(doc.sections.gateway_versions[i].key) = None
    \/ \E i \in 1..Len(doc.sections.gateway_node_tables) :
          \/ int_of(doc.sections.gateway_node_tables[i].key) = None
          \/ \E j \in 1..Len(doc.sections.gateway_node_tables[i].nodes) :
                MalformedEntry(doc.sections.gateway_node_tables[i].nodes[j])

\* C29: PersistentState.load yields a completely empty state whenever
\* reading or decoding the stored document fails in any way, a malformed
\* later entry of an otherwise valid document included; it never yields a
\* partially populated state.
C29_LoadFallsBackToEmpty ==
    (/\ loaded[1].outcome # None
     /\ LoadFails(loaded[1].doc))
    => /\ loaded[1].outcome[1].raised = None
       /\ loaded[1].outcome[1].state = Some(PersistentState_new)

\* C29 for the documents that cannot be opened or parsed as JSON text at
\* all: a missing file and a file that is no JSON give the empty state
C29_MissingOrGarbledIsEmpty ==
    (/\ loaded[1].outcome # None
     /\ loaded[1].doc.kind \in {"missing", "garbled"})
    => /\ loaded[1].outcome[1].raised = None
       /\ loaded[1].outcome[1].state = Some(PersistentState_new)

\* C29 for the documents that load returns a state for: the state is empty
\* when an entry is malformed
C29_NeverPartial ==
    (/\ loaded[1].outcome # None
     /\ LoadFails(loaded[1].doc)
     /\ loaded[1].outcome[1].raised = None)
    => loaded[1].outcome[1].state = Some(PersistentState_new)

---------------------------------------------------------------------------
(* Escapes inside a frame                                                  *)

\* the bytes 7E 00 .. 7E 06 stand for
EscapeTable == <<126, 36, 35, 37, 164, 163, 165>>

\* C30: inside a frame (the frame holding fewer than MAX_FRAME_SIZE bytes),
\* 7E 07 empties the buffer and begins a new frame whose first byte is the
\* byte that follows; 7E 08 closes the frame with the bytes accumulated;
\* 7E 00..06 appends 7E, 24, 23, 25, A4, A3, A5; 7E and any other byte
\* empties the buffer and moves to NOISE without an event; and a frame that
\* follows bytes dropped either way is emitted with its own content only.
C30_EscapesInsideFrame ==
    [][/\ (state = "FRAME" /\ Len(buffer) < MAX_FRAME_SIZE) =>
            /\ last'.data = <<126, 7>> =>
                  /\ state' = "FRAME"
                  /\ buffer' = <<>>
                  /\ last'.closes = <<>>
            /\ last'.data = <<126, 7, 66>> =>
                  /\ state' = "FRAME"
                  /\ buffer' = <<66>>
                  /\ last'.closes = <<>>
            /\ last'.data = <<126, 8>> =>
                  /\ state' = "IDLE"
                  /\ buffer' = <<>>
                  /\ Len(last'.closes) = 1
                  /\ last'.closes[1].content = buffer
            /\ \A k \in 0..6 :
                  last'.data = <<126, k>> =>
                      /\ state' = "FRAME"
                      /\ buffer' = Append(buffer, EscapeTable[k + 1])
                      /\ last'.closes = <<>>
            /\ (Len(last'.data) = 2 /\ last'.data[1] = 126 /\ last'.data[2] \notin 0..8) =>
                  /\ state' = "NOISE"
                  /\ buffer' = <<>>
                  /\ last'.closes = <<>>
                  /\ last'.events = <<>>
       /\ last'.data \in {RestartedFrame, DroppedThenFrame} =>
            /\ Len(last'.closes) = 1
            /\ last'.closes[1].content = GoodContent
            /\ last'.closes[1].frame # None
            /\ state' = "IDLE"
            /\ buffer' = <<>>]_vars

\* after two reads or more, a read began a frame, dropped it by an escape
\* that is not in the table, and emitted the whole frame that followed
C30_Witness ==
    /\ nfeeds >= 3
    /\ last.data = DroppedThenFrame
    /\ Len(last.closes) = 1
    /\ last.closes[1].frame # None
    /\ last.closes[1].content = GoodContent
    /\ counters.noise_bytes >= 1
    /\ counters.frames_received = 1

---------------------------------------------------------------------------
(* Oversize frames                                                         *)

\* C31: the buffer never holds more than 256 bytes and no frame of more is
\* closed or emitted; in a frame that holds 256 bytes the next content byte,
\* plain or escaped, empties the buffer, counts a giant and enters GIANT;
\* GIANT is left by 7E 08 to IDLE without a frame or an event, and by 7E 07
\* to a new empty frame; every other read keeps it in GIANT.
C31_GiantDiscarded ==
    [][/\ Len(buffer') <= MAX_FRAME_SIZE
       /\ \A i \in 1..Len(last'.closes) :
             Len(last'.closes[i].content) <= MAX_FRAME_SIZE
       /\ last'.data = OversizeFrame =>
             /\ \A i \in 1..Len(last'.closes) : last'.closes[i].frame = None
             /\ last'.events = <<>>
             /\ counters'.frames_received = counters.frames_received
             /\ counters'.giants = counters.giants + 1
             /\ state' = "IDLE"
       /\ (state = "FRAME" /\ Len(buffer) = MAX_FRAME_SIZE
             /\ last'.data \in {<<65>>, <<126, 0>>}) =>
             /\ state' = "GIANT"
             /\ buffer' = <<>>
             /\ counters'.giants = counters.giants + 1
             /\ last'.closes = <<>>
       /\ state = "GIANT" =>
             /\ last'.data = <<126, 8>> =>
                   /\ state' = "IDLE"
                   /\ last'.closes = <<>>
                   /\ last'.events = <<>>
                   /\ counters' = counters
             /\ last'.data = <<126, 7>> =>
                   /\ state' = "FRAME"
                   /\ buffer' = <<>>
             /\ last'.data \in {Block, <<65>>, <<126, 0>>, <<126, 9>>} =>
                   /\ state' = "GIANT"
                   /\ last'.closes = <<>>
                   /\ counters' = counters]_vars

\* a frame was filled to 256 bytes, the byte after them entered GIANT, and
\* 7E 08 left it without a frame
C31_Witness ==
    /\ last.data = <<126, 8>>
    /\ state = "IDLE"
    /\ counters.giants = 1
    /\ counters.frames_received = 0
    /\ counters.runts = 0
    /\ counters.crc_errors = 0
    /\ counters.noise_bytes = 0
    /\ nfeeds = 5

---------------------------------------------------------------------------
(* Resynchronisation                                                       *)

\* the last frame closed in the read was emitted with the given content
LastEmitted(call, content) ==
    /\ call.closes # <<>>
    /\ call.closes[Len(call.closes)].content = content
    /\ call.closes[Len(call.closes)].frame # None

\* C32: a well-formed frame is emitted when the extractor is in IDLE, NOISE,
\* FRAME or GIANT at its first byte; in whatever state the extractor is, a
\* whole frame leaves it in IDLE or NOISE and of two well-formed frames that
\* follow one another the second is emitted.
C32_Resynchronises ==
    [][/\ (state \in {"IDLE", "NOISE", "FRAME", "GIANT"} /\ last'.data \in WholeFrames) =>
            /\ LastEmitted(last', LastContent(last'.data))
            /\ state' = "IDLE"
       /\ last'.data \in WholeFrames => state' \in {"IDLE", "NOISE"}
       /\ last'.data \in TwoFrames =>
            /\ LastEmitted(last', LastContent(last'.data))
            /\ state' = "IDLE"]_vars

\* a read of two frames came when the extractor had just taken a 7E: the
\* first frame was lost and the second emitted
C32_Witness ==
    /\ last.data \in TwoFrames
    /\ Len(last.closes) = 1
    /\ last.closes[1].frame # None
    /\ last.closes[1].content = LastContent(last.data)
    /\ counters.frames_received = 1

\* a frame came when the extractor was in GIANT and was emitted
C32_WitnessFromGiant ==
    /\ last.data \in WholeFrames
    /\ counters.giants = 1
    /\ counters.frames_received = 1
    /\ nfeeds = 2

---------------------------------------------------------------------------
(* Packet numbers                                                          *)

\* the length of the status type and the auxiliary fields of a response
AuxEnd(payload) ==
    2 + (IF payload[2] % 2 = 0 THEN 1 ELSE 0)
      + (IF (payload[2] \div 2) % 2 = 0 THEN 1 ELSE 0)
      + (IF (payload[2] \div 4) % 2 = 0 THEN 2 ELSE 0)
      + (IF (payload[2] \div 8) % 2 = 0 THEN 2 ELSE 0)

\* status bit 0x0010 of a response
LowOnly(payload) == (payload[2] \div 16) % 2 = 1

\* a frame close with a RECEIVE_RESPONSE of a gateway that has a packet
\* number stored, whose header is whole
WholeResponse(c) ==
    /\ c.frame # None
    /\ c.frame[1].frame_type = RECEIVE_RESPONSE
    /\ c.frame[1].address.is_from
    /\ c.frame[1].address.gateway_id \in DOMAIN c.pre.rx_packet_numbers
    /\ Len(c.frame[1].payload) >= 4
    /\ (c.frame[1].payload[2] \div 32) % 8 = 7
    /\ Len(c.frame[1].payload)
         >= AuxEnd(c.frame[1].payload) + (IF LowOnly(c.frame[1].payload) THEN 1 ELSE 2) + 2

\* the packet number the claim gives for the response of close c
ExpectedNumber(c) ==
    LET payload == c.frame[1].payload
        at == AuxEnd(payload)
        prev == c.pre.rx_packet_numbers[c.frame[1].address.gateway_id]
        prev_hi == prev \div 256
        prev_lo == prev % 256
        new_lo == payload[at + 1]
    IN  IF ~LowOnly(payload) THEN payload[at + 1] * 256 + payload[at + 2]
        ELSE (IF new_lo < prev_lo THEN (prev_hi + 1) % 256 ELSE prev_hi) * 256 + new_lo

\* C33: after a RECEIVE_RESPONSE with status bit 0x0010 clear the packet
\* number stored for the gateway is the two-byte value carried; with the bit
\* set it is the previous high byte, incremented modulo 256 exactly when the
\* new low byte is less than the previous one, followed by the new low byte;
\* every stored packet number is within 0..65535.
C33_PacketNumber ==
    /\ \A i \in 1..Len(last.closes) :
          WholeResponse(last.closes[i]) =>
              last.closes[i].post.rx_packet_numbers[last.closes[i].frame[1].address.gateway_id]
                = ExpectedNumber(last.closes[i])
    /\ \A gw \in DOMAIN rx_packet_numbers : rx_packet_numbers[gw] \in 0..65535

\* the packet number FFFF was followed by a response with the low byte 01:
\* the high byte wrapped to 00
C33_Witness ==
    /\ Len(last.closes) = 1
    /\ WholeResponse(last.closes[1])
    /\ LowOnly(last.closes[1].frame[1].payload)
    /\ last.closes[1].pre.rx_packet_numbers[1] = 65535
    /\ rx_packet_numbers[1] = 1

\* a response with every auxiliary field carried the packet number 01FF in
\* two bytes
C33_WitnessFull ==
    /\ Len(last.closes) = 1
    /\ WholeResponse(last.closes[1])
    /\ AuxEnd(last.closes[1].frame[1].payload) = 8
    /\ last.closes[1].pre.rx_packet_numbers[1] # 511
    /\ rx_packet_numbers[1] = 511

---------------------------------------------------------------------------
(* Truncated receive responses                                             *)

\* a frame close with a RECEIVE_RESPONSE of a gateway that has a packet
\* number stored, whose payload ends before the end of the slot counter
TruncatedHeader(c) ==
    /\ c.frame # None
    /\ c.frame[1].frame_type = RECEIVE_RESPONSE
    /\ c.frame[1].address.is_from
    /\ c.frame[1].address.gateway_id \in DOMAIN c.pre.rx_packet_numbers
    /\ \/ Len(c.frame[1].payload) < 2
       \/ Len(c.frame[1].payload)
            < AuxEnd(c.frame[1].payload) + (IF LowOnly(c.frame[1].payload) THEN 1 ELSE 2) + 2

\* the parser after a close is the parser before it but for the frame
\* extractor and the counters
SameButExtractor(c) ==
    [c.post EXCEPT !.state = c.pre.state, !.buffer = c.pre.buffer,
                   !.counters = c.pre.counters] = c.pre

\* C34: a RECEIVE_RESPONSE whose payload ends before the end of its header
\* emits no event and changes no parser state (packet number, pending
\* capture time and slot clock of the gateway as before); the next frame is
\* handled normally: a whole response after it gets the packet number and
\* the slot clock it would get without the truncated one.
C34_TruncatedHeaderDropped ==
    \A i \in 1..Len(last.closes) :
        TruncatedHeader(last.closes[i]) =>
            /\ last.closes[i].events = <<>>
            /\ ~last.closes[i].raised
            /\ SameButExtractor(last.closes[i])
            /\ last.closes[i].post.counters.frames_received
                 = last.closes[i].pre.counters.frames_received + 1
            /\ \A j \in 1..Len(last.closes) :
                  (j = i + 1 /\ WholeResponse(last.closes[j]) /\ ~last.closes[j].raised) =>
                      /\ last.closes[j].pre.rx_packet_numbers
                           = last.closes[i].pre.rx_packet_numbers
                      /\ last.closes[j].pre.slot_clocks = last.closes[i].pre.slot_clocks
                      /\ last.closes[j].pre.captured_slot_times
                           = last.closes[i].pre.captured_slot_times
                      /\ last.closes[j].post.rx_packet_numbers[1]
                           = ExpectedNumber(last.closes[j])
                      /\ 1 \in DOMAIN last.closes[j].post.slot_clocks
                      /\ 1 \notin DOMAIN last.closes[j].post.captured_slot_times

\* one read held a response cut inside its slot counter and a whole
\* response, while gateway 1 had the packet number 01FE, a pending capture
\* time and a slot clock: the whole response stored 0201 and took the
\* capture time
C34_Witness ==
    /\ Len(last.closes) = 2
    /\ TruncatedHeader(last.closes[1])
    /\ WholeResponse(last.closes[2])
    /\ last.closes[1].pre.rx_packet_numbers[1] = 510
    /\ 1 \in DOMAIN last.closes[1].pre.captured_slot_times
    /\ 1 \in DOMAIN last.closes[1].pre.slot_clocks
    /\ rx_packet_numbers[1] = 513
    /\ 1 \notin DOMAIN captured_slot_times

---------------------------------------------------------------------------
(* Decoding of embedded packets                                            *)

\* every gateway with a stored packet number has a pending capture time or
\* a slot clock
ClockOrCapture(p) ==
    \A gw \in DOMAIN p.rx_packet_numbers :
        gw \in DOMAIN p.captured_slot_times \/ gw \in DOMAIN p.slot_clocks

\* C35: as long as feed has not raised, every gateway with a stored packet
\* number has a pending capture time or a slot clock, so that whenever the
\* embedded packets of a RECEIVE_RESPONSE of gateway G are decoded (the
\* response was accepted and the slot clock update did not raise) a slot
\* clock for G exists and no power report is dropped for lack of one.
C35_SlotClockWhenDecoding ==
    [][ClockOrCapture(Cur) =>
          /\ \A i \in 1..Len(last'.closes) :
                /\ ClockOrCapture(last'.closes[i].pre)
                /\ ~last'.closes[i].raised => ClockOrCapture(last'.closes[i].post)
                /\ WholeResponse(last'.closes[i]) =>
                      \/ last'.closes[i].raised
                      \/ last'.closes[i].frame[1].address.gateway_id
                           \in DOMAIN last'.closes[i].post.slot_clocks
          /\ ~last'.raised => ClockOrCapture(Cur')]_vars

\* the first response of gateway 1 carried a packet and was decoded without
\* a raise: the slot clock was created from the pending capture time before
\* the packet was decoded
C35_Witness ==
    /\ Len(last.closes) = 1
    /\ WholeResponse(last.closes[1])
    /\ Len(last.closes[1].frame[1].payload) > 5
    /\ ~last.raised
    /\ ClockOrCapture(last.closes[1].pre)
    /\ 1 \notin DOMAIN last.closes[1].pre.slot_clocks
    /\ 1 \in DOMAIN slot_clocks
    /\ DOMAIN rx_packet_numbers = {1, 2}
    /\ ClockOrCapture(Cur)

\* after a raise of the slot clock a gateway has a packet number and neither
\* a capture time nor a slot clock
C35_AfterRaise == ~ClockOrCapture(Cur)

---------------------------------------------------------------------------
(* Pairing of commands                                                     *)

\* a frame close with a COMMAND_RESPONSE of a gateway carrying a packet type
\* and a sequence number
CommandResponse(c) ==
    /\ c.frame # None
    /\ c.frame[1].frame_type = COMMAND_RESPONSE
    /\ c.frame[1].address.is_from
    /\ Len(c.frame[1].payload) >= 5

KeyOf(c) == <<c.frame[1].address.gateway_id, c.frame[1].payload[5]>>

\* the request stored under the key of the response pairs with its type
TypesPair(c) ==
    \/ /\ c.pre.commands_awaiting[KeyOf(c)].packet_type = NODE_TABLE_REQUEST
       /\ c.frame[1].payload[4] = NODE_TABLE_RESPONSE
    \/ /\ c.pre.commands_awaiting[KeyOf(c)].packet_type = STRING_REQUEST
       /\ c.frame[1].payload[4] = STRING_RESPONSE

\* C36: a stored command request is consumed by the first COMMAND_RESPONSE
\* with its (gateway, sequence) key whatever the response's packet type:
\* after any such response the key is not stored and the other requests are
\* as before; a response that finds no request under its key (a second
\* response) emits nothing and changes nothing; a response whose type does
\* not pair with the request's emits nothing and removes the request only.
C36_RequestConsumedOnce ==
    \A i \in 1..Len(last.closes) :
        CommandResponse(last.closes[i]) =>
            /\ KeyOf(last.closes[i]) \notin DOMAIN last.closes[i].post.commands_awaiting
            /\ last.closes[i].post.commands_awaiting
                 = DictDel(last.closes[i].pre.commands_awaiting, KeyOf(last.closes[i]))
            /\ KeyOf(last.closes[i]) \notin DOMAIN last.closes[i].pre.commands_awaiting =>
                  /\ last.closes[i].events = <<>>
                  /\ SameButExtractor(last.closes[i])
            /\ (/\ KeyOf(last.closes[i]) \in DOMAIN last.closes[i].pre.commands_awaiting
                /\ ~TypesPair(last.closes[i])) =>
                  /\ last.closes[i].events = <<>>
                  /\ [last.closes[i].post EXCEPT
                         !.state = last.closes[i].pre.state,
                         !.buffer = last.closes[i].pre.buffer,
                         !.counters = last.closes[i].pre.counters,
                         !.commands_awaiting = last.closes[i].pre.commands_awaiting]
                       = last.closes[i].pre

\* one read held a NODE_TABLE_REQUEST, a STRING_RESPONSE with its key and
\* the terminating NODE_TABLE_RESPONSE with its key: the first response
\* removed the request and neither emitted anything
C36_Witness ==
    /\ Len(last.closes) = 3
    /\ CommandResponse(last.closes[2])
    /\ KeyOf(last.closes[2]) \in DOMAIN last.closes[2].pre.commands_awaiting
    /\ last.closes[2].pre.commands_awaiting[KeyOf(last.closes[2])].packet_type
         = NODE_TABLE_REQUEST
    /\ last.closes[2].frame[1].payload[4] = STRING_RESPONSE
    /\ CommandResponse(last.closes[3])
    /\ KeyOf(last.closes[3]) = KeyOf(last.closes[2])
    /\ last.closes[3].frame[1].payload[4] = NODE_TABLE_RESPONSE
    /\ last.events = <<>>
    /\ persistent_state = PersistentState_new

\* one read held a STRING_REQUEST and two STRING_RESPONSEs with its key:
\* the first emitted the string event, the second nothing
C36_WitnessSecond ==
    /\ Len(last.closes) = 3
    /\ CommandResponse(last.closes[2])
    /\ CommandResponse(last.closes[3])
    /\ KeyOf(last.closes[3]) = KeyOf(last.closes[2])
    /\ Len(last.closes[2].events) = 1
    /\ last.closes[3].events = <<>>

---------------------------------------------------------------------------
(* Counters                                                                *)

CounterNames == {"frames_received", "crc_errors", "runts", "giants", "noise_bytes"}

\* the frames closed, whatever their outcome
Closed(c) == c.frames_received + c.runts + c.crc_errors

\* at a frame close exactly one of frames_received, runts and crc_errors
\* grew by one, runts exactly for content shorter than 6 bytes, and the
\* other counters stayed
CountedOnce(c) ==
    /\ Closed(c.post.counters) = Closed(c.pre.counters) + 1
    /\ \A k \in CounterNames : c.post.counters[k] >= c.pre.counters[k]
    /\ c.post.counters.runts = c.pre.counters.runts + 1 <=> Len(c.content) < 6
    /\ c.post.counters.frames_received = c.pre.counters.frames_received + 1
          <=> c.frame # None
    /\ c.post.counters.giants = c.pre.counters.giants
    /\ c.post.counters.noise_bytes = c.pre.counters.noise_bytes

\* what holds of every read whatever the reading of "entry into GIANT"
CountersStep ==
    /\ \A k \in CounterNames : counters'[k] >= counters[k]
    /\ \A i \in 1..Len(last'.closes) : CountedOnce(last'.closes[i])
    /\ Closed(counters') = Closed(counters) + Len(last'.closes)
    /\ Len(last'.data) = 1 =>
          /\ Len(last'.closes) = (IF state = "FRAME_ESCAPE" /\ last'.data[1] = 8
                                   THEN 1 ELSE 0)
          /\ counters'.noise_bytes
               = counters.noise_bytes
                 + (IF state' = "NOISE" /\ state # "NOISE" THEN 1 ELSE 0)

\* C37 as stated: counters never decrease; every frame close increments
\* exactly one of frames_received, runts and crc_errors; noise_bytes grows
\* by one on each entry into NOISE from another state, not once per noise
\* byte; giants grows by one on each entry into GIANT.
C37_CountersPerTransition ==
    [][/\ CountersStep
       /\ Len(last'.data) = 1 =>
             counters'.giants
               = counters.giants
                 + (IF state' = "GIANT" /\ state # "GIANT" THEN 1 ELSE 0)]_vars

\* C37 amended: the same, with giants growing by one on each entry into
\* GIANT from a state other than GIANT_ESCAPE, and not on the return from
\* GIANT_ESCAPE to GIANT.
C37_CountersPerEntry ==
    [][/\ CountersStep
       /\ Len(last'.data) = 1 =>
             counters'.giants
               = counters.giants
                 + (IF state' = "GIANT" /\ state \notin {"GIANT", "GIANT_ESCAPE"}
                    THEN 1 ELSE 0)]_vars

\* a frame filled with 256 bytes took one more byte, then 7E, then a byte
\* that is neither 07 nor 08: the extractor is back in GIANT and giants is 1
C37_Witness ==
    /\ nfeeds = 4
    /\ last.data = <<65>>
    /\ state = "GIANT"
    /\ counters.giants = 1
    /\ counters.noise_bytes = 0

\* a frame was closed by the single bytes 7E and 08 and counted as received
\* while its handling raised
C37_WitnessRaised ==
    /\ last.data = <<8>>
    /\ last.raised
    /\ counters.frames_received = 2
    /\ Closed(counters) = 2

---------------------------------------------------------------------------
(* Debounced persistence                                                   *)

\* a step in which _schedule_save was called
ScheduleStep == scheduled_at' # scheduled_at

\* a step in which a save timer fired
TimerStep == handled' # handled /\ handled'.event = Some([event_type |-> "save_timer"])

\* a step in which async_stop_listener ran down to its flush
StopStep == stopper = "not called" /\ stopper' # "not called"

\* every call of _schedule_save leaves one timer pending, due
\* SAVE_DELAY_SECONDS later; at most one timer is pending; a timer fires
\* only SAVE_DELAY_SECONDS or more after the last call
Debounced ==
    /\ Cardinality(loop_timers') <= 1
    /\ save_task' <=> loop_timers' # {}
    /\ ScheduleStep =>
          /\ unsaved_changes'
          /\ loop_timers' = {wall' + 10}
    /\ TimerStep =>
          /\ scheduled_at # None
          /\ wall' >= scheduled_at[1] + 10
    /\ StopStep => loop_timers' = {}

\* C38: persistence is debounced: every change that calls _schedule_save
\* cancels the pending save timer and starts one of 10 s, so at most one
\* timer is pending and a timer-driven save happens only after 10 s without
\* a further change; changes still unsaved at shutdown are written by
\* async_stop_listener.
C38_DebouncedPersistence ==
    [][/\ Debounced
       /\ (StopStep /\ unsaved_changes) =>
             /\ handled'.result
             /\ ~handled'.raised]_vars

\* the debounce alone
C38_Debounce == [][Debounced]_vars

\* a change at 3 s and one at 6 s: one timer is pending, due at 16 s
C38_Rearmed ==
    /\ nevents = 2
    /\ wall = 6
    /\ scheduled_at = Some(6)
    /\ handled.pre # None
    /\ handled.pre[1].save_task
    /\ loop_timers = {16}

---------------------------------------------------------------------------
(* The accumulator under negative powers and timestamps that step back     *)

\* C39: from a fresh accumulator, after any sequence of accumulate_energy
\* calls with any powers, negative ones included, and any timestamps,
\* 0 <= daily_energy_wh <= total_energy_wh, last_power_w >= 0, and every
\* returned increment_wh is >= 0.
C39_EnergiesOrdered ==
    /\ 0 <= accumulator.daily_energy_wh
    /\ accumulator.daily_energy_wh <= accumulator.total_energy_wh
    /\ accumulator.last_power_w >= 0
    /\ sample.result # None => sample.result[1].increment_wh >= 0

\* the third sample, of negative power and on a new day, was integrated
\* with the power 0: the day's energy is its increment, less than the total
C39_Witness ==
    /\ nsamples = 3
    /\ sample.power = Some(-5)
    /\ accumulator.last_power_w = 0
    /\ sample.result[1].increment_wh > 0
    /\ accumulator.daily_energy_wh = sample.result[1].increment_wh
    /\ accumulator.daily_energy_wh < accumulator.total_energy_wh

\* the sample of the last call was not later than the reading before it
Regressed(s) ==
    /\ s.pre # None
    /\ s.pre[1].last_reading_ts # None
    /\ s.now[1] <= s.pre[1].last_reading_ts[1]

\* C40: a sample whose timestamp is not later than the last reading adds no
\* energy and raises no discard flag, but replaces the stored last reading
\* with its own timestamp and (non-negative) power, so that the following
\* sample is integrated over the interval from that regressed timestamp.
C40_RegressedSample ==
    [][/\ Regressed(sample') =>
             /\ sample'.result[1].increment_wh = 0
             /\ ~sample'.result[1].discarded_gap_during_production
             /\ accumulator'.total_energy_wh = accumulator.total_energy_wh
             /\ accumulator'.daily_energy_wh
                  = (IF accumulator.daily_reset_date = Some(date(sample'.now[1]))
                     THEN accumulator.daily_energy_wh ELSE 0)
             /\ accumulator'.last_reading_ts = sample'.now
             /\ accumulator'.last_power_w
                  = (IF sample'.power[1] > 0 THEN sample'.power[1] ELSE 0)
       /\ (/\ Regressed(sample)
           /\ sample'.now[1] - sample.now[1] > 0
           /\ sample'.now[1] - sample.now[1] <= 120) =>
             sample'.result[1].increment_wh
               = ((IF sample.power[1] > 0 THEN sample.power[1] ELSE 0)
                  + (IF sample'.power[1] > 0 THEN sample'.power[1] ELSE 0))
                 * (sample'.now[1] - sample.now[1])]_vars

\* a reading, a sample 30 s before it, and a sample 30 s after it: the
\* third was integrated over the 60 s from the second, at 100 W
C40_Witness ==
    /\ nsamples = 3
    /\ sample.pre[1].last_reading_ts = Some(FirstSampleTime - 30)
    /\ sample.now = Some(FirstSampleTime + 30)
    /\ sample.pre[1].last_power_w = 100
    /\ sample.power = Some(100)
    /\ sample.result[1].increment_wh = 200 * 60
    /\ accumulator.total_energy_wh = 200 * 60

====
